---------------------------- MODULE Spec2Model ----------------------------
(***************************************************************************)
(* Request authentication layer of alx-backend-user-data:                  *)
(*   0x01-Basic_authentication   (BasicAuth, header parsing)               *)
(*   0x02-Session_authentication (the request gate, session strategies)    *)
(*   0x03-user_authentication_service (registration, login, reset)         *)
(*                                                                         *)
(* Python values are tagged records: None, Str(<<code points>>), IntVal(i),*)
(* Bool(b), List(<<...>>), Tuple(<<...>>).                                 *)
(* A Python str is the sequence of its code points, a bytes object the     *)
(* sequence of its byte values, so that Base64 / UTF-8 are computed.       *)
(***************************************************************************)
EXTENDS Integers, Sequences, FiniteSets, TLC

VARIABLES
    auth,                   \* class of the strategy object (api/v1/app.py `auth`)
    SESSION_DURATION,       \* os.getenv("SESSION_DURATION")
    session_duration,       \* SessionExpAuth.session_duration
    threads,                \* the call each worker thread is in the middle of
    generated,              \* how many values _generate_uuid has returned
    users,                  \* the User store, in insertion order
    user_id_by_session_id,  \* SessionAuth.user_id_by_session_id (class attribute)
    user_sessions,          \* the persisted UserSession records
    now,                    \* datetime.now(), in seconds
    last                    \* the last call or request and what it returned

vars == <<auth, SESSION_DURATION, session_duration, threads, generated, users,
          user_id_by_session_id, user_sessions, now, last>>

\* What is fixed when the process starts.
settings == <<auth, SESSION_DURATION, session_duration>>

-----------------------------------------------------------------------------
(* Python values *)

None == [none |-> TRUE]
Str(s) == [str |-> s]
IntVal(i) == [int |-> i]
Bool(b) == [bool |-> b]
List(l) == [list |-> l]
Tuple(t) == [tuple |-> t]
IsNone(x) == DOMAIN x = {"none"}
IsStr(x) == DOMAIN x = {"str"}

\* The outcome of an expression that raised: the exception's class name.
Raised(e) == [raised |-> e]
IsRaised(x) == DOMAIN x = {"raised"}

-----------------------------------------------------------------------------
(* str helpers *)

StartsWith(s, p) == Len(s) >= Len(p) /\ SubSeq(s, 1, Len(p)) = p

\* str.find(c): the first index of code point c in s, 0 when there is none.
RECURSIVE FindFrom(_, _, _)
FindFrom(s, c, i) ==
    IF i > Len(s) THEN 0
    ELSE IF s[i] = c THEN i
    ELSE FindFrom(s, c, i + 1)

Find(s, c) == FindFrom(s, c, 1)

\* str.rfind(c): the last index of code point c in s, 0 when there is none.
RECURSIVE RFindFrom(_, _, _)
RFindFrom(s, c, i) ==
    IF i < 1 THEN 0
    ELSE IF s[i] = c THEN i
    ELSE RFindFrom(s, c, i - 1)

\* s.split(sep, 1): one or two parts, cut at the first sep.
Split1(s, c) ==
    LET i == Find(s, c)
    IN  IF i = 0 THEN <<s>>
        ELSE <<SubSeq(s, 1, i - 1), SubSeq(s, i + 1, Len(s))>>

\* The same cut made at the last sep (s.rsplit(sep, 1)).
RSplit1(s, c) ==
    LET i == RFindFrom(s, c, Len(s))
    IN  IF i = 0 THEN <<s>>
        ELSE <<SubSeq(s, 1, i - 1), SubSeq(s, i + 1, Len(s))>>

Colon == 58
Space == 32
Pad == 61
BasicPrefix == <<66, 97, 115, 105, 99, 32>>     \* "Basic "

-----------------------------------------------------------------------------
(* str.encode('utf-8') and bytes.decode('utf-8') *)

RECURSIVE Utf8Encode(_)
Utf8Encode(s) ==
    IF s = <<>> THEN <<>>
    ELSE LET c == Head(s)
             b == IF c < 128 THEN <<c>>
                  ELSE IF c < 2048 THEN <<192 + (c \div 64), 128 + (c % 64)>>
                  ELSE IF c < 65536
                       THEN <<224 + (c \div 4096), 128 + ((c \div 64) % 64),
                              128 + (c % 64)>>
                  ELSE <<240 + (c \div 262144), 128 + ((c \div 4096) % 64),
                         128 + ((c \div 64) % 64), 128 + (c % 64)>>
         IN  b \o Utf8Encode(Tail(s))

IsCont(b) == b >= 128 /\ b <= 191

\* The number of bytes of the well-formed UTF-8 sequence that starts b, 0 when
\* b starts none (overlong forms, surrogates and values above U+10FFFF included).
Utf8SeqLen(b) ==
    LET n == Len(b)
        b1 == b[1]
    IN  IF b1 < 128 THEN 1
        ELSE IF b1 >= 194 /\ b1 <= 223
             THEN IF n >= 2 /\ IsCont(b[2]) THEN 2 ELSE 0
        ELSE IF b1 >= 224 /\ b1 <= 239
             THEN IF n >= 3 /\ IsCont(b[2]) /\ IsCont(b[3])
                     /\ (b1 = 224 => b[2] >= 160)
                     /\ (b1 = 237 => b[2] <= 159)
                  THEN 3 ELSE 0
        ELSE IF b1 >= 240 /\ b1 <= 244
             THEN IF n >= 4 /\ IsCont(b[2]) /\ IsCont(b[3]) /\ IsCont(b[4])
                     /\ (b1 = 240 => b[2] >= 144)
                     /\ (b1 = 244 => b[2] <= 143)
                  THEN 4 ELSE 0
        ELSE 0

Utf8CodePoint(b, k) ==
    IF k = 1 THEN b[1]
    ELSE IF k = 2 THEN (b[1] - 192) * 64 + (b[2] - 128)
    ELSE IF k = 3 THEN (b[1] - 224) * 4096 + (b[2] - 128) * 64 + (b[3] - 128)
    ELSE (b[1] - 240) * 262144 + (b[2] - 128) * 4096 + (b[3] - 128) * 64
         + (b[4] - 128)

\* bytes.decode('utf-8'): Str(code points), or UnicodeDecodeError.
RECURSIVE Utf8DecodeFrom(_, _)
Utf8DecodeFrom(b, acc) ==
    IF b = <<>> THEN Str(acc)
    ELSE LET k == Utf8SeqLen(b)
         IN  IF k = 0 THEN Raised("UnicodeDecodeError")
             ELSE Utf8DecodeFrom(SubSeq(b, k + 1, Len(b)),
                                 Append(acc, Utf8CodePoint(b, k)))

Utf8Decode(b) == Utf8DecodeFrom(b, <<>>)

-----------------------------------------------------------------------------
(* base64.b64encode / base64.b64decode over ASCII code points *)

\* The character of the standard alphabet for the 6-bit value v.
B64Char(v) ==
    IF v < 26 THEN 65 + v
    ELSE IF v < 52 THEN 97 + (v - 26)
    ELSE IF v < 62 THEN 48 + (v - 52)
    ELSE IF v = 62 THEN 43
    ELSE 47

\* The 6-bit value of character c, 64 when c is outside the alphabet.
B64Value(c) ==
    IF c >= 65 /\ c <= 90 THEN c - 65
    ELSE IF c >= 97 /\ c <= 122 THEN c - 97 + 26
    ELSE IF c >= 48 /\ c <= 57 THEN c - 48 + 52
    ELSE IF c = 43 THEN 62
    ELSE IF c = 47 THEN 63
    ELSE 64

RECURSIVE b64encode(_)
b64encode(b) ==
    IF b = <<>> THEN <<>>
    ELSE IF Len(b) = 1
         THEN <<B64Char(b[1] \div 4), B64Char((b[1] % 4) * 16), Pad, Pad>>
    ELSE IF Len(b) = 2
         THEN <<B64Char(b[1] \div 4),
                B64Char((b[1] % 4) * 16 + (b[2] \div 16)),
                B64Char((b[2] % 16) * 4), Pad>>
    ELSE <<B64Char(b[1] \div 4),
           B64Char((b[1] % 4) * 16 + (b[2] \div 16)),
           B64Char((b[2] % 16) * 4 + (b[3] \div 64)),
           B64Char(b[3] % 64)>> \o b64encode(SubSeq(b, 4, Len(b)))

\* binascii.a2b_base64 as b64decode calls it (validate=False): characters
\* outside the alphabet are skipped, the data ends at the padding that
\* completes a quantum, and an incomplete quantum raises binascii.Error.
RECURSIVE a2b_base64(_, _, _, _, _, _)
a2b_base64(s, i, quad_pos, leftchar, pads, out) ==
    IF i > Len(s)
    THEN IF quad_pos # 0 THEN Raised("binascii.Error") ELSE [bytes |-> out]
    ELSE LET c == s[i]
             v == B64Value(c)
         IN  IF c = Pad
             THEN IF quad_pos >= 2 /\ quad_pos + pads + 1 >= 4
                  THEN [bytes |-> out]
                  ELSE a2b_base64(s, i + 1, quad_pos, leftchar,
                                  IF quad_pos >= 2 THEN pads + 1 ELSE pads, out)
             ELSE IF v >= 64
             THEN a2b_base64(s, i + 1, quad_pos, leftchar, pads, out)
             ELSE IF quad_pos = 0
             THEN a2b_base64(s, i + 1, 1, v, 0, out)
             ELSE IF quad_pos = 1
             THEN a2b_base64(s, i + 1, 2, v % 16, 0,
                             Append(out, leftchar * 4 + (v \div 16)))
             ELSE IF quad_pos = 2
             THEN a2b_base64(s, i + 1, 3, v % 4, 0,
                             Append(out, leftchar * 16 + (v \div 4)))
             ELSE a2b_base64(s, i + 1, 0, 0, 0,
                             Append(out, leftchar * 64 + v))

\* base64.b64decode(s) for a str s: a non-ASCII character raises ValueError.
b64decode(s) ==
    IF \E i \in 1..Len(s) : s[i] > 127 THEN Raised("ValueError")
    ELSE a2b_base64(s, 1, 0, 0, 0, <<>>)

-----------------------------------------------------------------------------
(* The credential store: models/user.py, models/base.py *)

\* hashlib.sha256(pwd.encode()).hexdigest().lower(), taken as injective.
Sha256(pwd) == <<"sha256", pwd>>

\* A stored user: id, email and the hashed password.
NewUser(n, email, pwd) ==
    [id |-> Str(<<117, 48 + n>>), email |-> Str(email), password |-> Sha256(pwd)]

\* User.search({"email": email}): every stored user with that email, in
\* insertion order; a failing store raises.
User_search(store, email, store_fails) ==
    IF store_fails THEN Raised("StoreError")
    ELSE List(SelectSeq(store, LAMBDA u : u.email = email))

\* User.get(id): the stored user with that id, or None; a failing store raises.
User_get(store, id, store_fails) ==
    IF store_fails THEN Raised("StoreError")
    ELSE LET found == SelectSeq(store, LAMBDA u : u.id = id)
         IN  IF found = <<>> THEN None ELSE found[1]

\* user.is_valid_password(pwd)
is_valid_password(user, pwd) ==
    IF ~IsStr(pwd) THEN FALSE ELSE Sha256(pwd.str) = user.password

-----------------------------------------------------------------------------
(* api/v1/auth/basic_auth.py *)

extract_base64_authorization_header(authorization_header) ==
    IF IsNone(authorization_header) THEN None
    ELSE IF ~IsStr(authorization_header) THEN None
    ELSE IF ~StartsWith(authorization_header.str, BasicPrefix) THEN None
    ELSE Str(Split1(authorization_header.str, Space)[2])

\* except (ValueError, TypeError): binascii.Error and UnicodeDecodeError are
\* subclasses of ValueError.
CaughtByDecode(e) ==
    e.raised \in {"ValueError", "TypeError", "binascii.Error", "UnicodeDecodeError"}

\* The mutant: the try block without its except clause.
decode_base64_authorization_header_uncaught(base64_authorization_header) ==
    IF IsNone(base64_authorization_header) THEN None
    ELSE IF ~IsStr(base64_authorization_header) THEN None
    ELSE LET decoded_bytes == b64decode(base64_authorization_header.str)
         IN  IF IsRaised(decoded_bytes) THEN decoded_bytes
             ELSE Utf8Decode(decoded_bytes.bytes)

decode_base64_authorization_header(base64_authorization_header) ==
    IF IsNone(base64_authorization_header) THEN None
    ELSE IF ~IsStr(base64_authorization_header) THEN None
    ELSE LET decoded_bytes == b64decode(base64_authorization_header.str)
         IN  IF IsRaised(decoded_bytes)
             THEN IF CaughtByDecode(decoded_bytes) THEN None ELSE decoded_bytes
             ELSE LET text == Utf8Decode(decoded_bytes.bytes)
                  IN  IF IsRaised(text) /\ CaughtByDecode(text) THEN None
                      ELSE text

\* The mutant: the decoded text cut at its last colon.
extract_user_credentials_last_colon(decoded_base64_authorization_header) ==
    IF IsNone(decoded_base64_authorization_header) THEN Tuple(<<None, None>>)
    ELSE IF ~IsStr(decoded_base64_authorization_header) THEN Tuple(<<None, None>>)
    ELSE IF Find(decoded_base64_authorization_header.str, Colon) = 0
         THEN Tuple(<<None, None>>)
    ELSE LET parts == RSplit1(decoded_base64_authorization_header.str, Colon)
         IN  Tuple(<<Str(parts[1]), Str(parts[2])>>)

extract_user_credentials(decoded_base64_authorization_header) ==
    IF IsNone(decoded_base64_authorization_header) THEN Tuple(<<None, None>>)
    ELSE IF ~IsStr(decoded_base64_authorization_header) THEN Tuple(<<None, None>>)
    ELSE IF Find(decoded_base64_authorization_header.str, Colon) = 0
         THEN Tuple(<<None, None>>)
    ELSE LET parts == Split1(decoded_base64_authorization_header.str, Colon)
         IN  Tuple(<<Str(parts[1]), Str(parts[2])>>)

\* The mutant: the first match is returned without checking the password.
user_object_from_credentials_unchecked(store, user_email, user_pwd, store_fails) ==
    IF IsNone(user_email) \/ ~IsStr(user_email) THEN None
    ELSE IF IsNone(user_pwd) \/ ~IsStr(user_pwd) THEN None
    ELSE LET found == User_search(store, user_email, store_fails)
         IN  IF IsRaised(found) THEN found
             ELSE IF Len(found.list) = 0 THEN None
             ELSE found.list[1]

user_object_from_credentials(store, user_email, user_pwd, store_fails) ==
    IF IsNone(user_email) \/ ~IsStr(user_email) THEN None
    ELSE IF IsNone(user_pwd) \/ ~IsStr(user_pwd) THEN None
    ELSE LET found == User_search(store, user_email, store_fails)
         IN  IF IsRaised(found) THEN found
             ELSE IF Len(found.list) = 0 THEN None
             ELSE IF ~is_valid_password(found.list[1], user_pwd) THEN None
             ELSE found.list[1]

\* Auth.authorization_header(request)
authorization_header(request) ==
    IF IsNone(request) THEN None ELSE request.Authorization

\* The (email, password) pair current_user extracts from a request.
RequestCredentials(request) ==
    LET auth_header == authorization_header(request)
        base64_auth_header == extract_base64_authorization_header(auth_header)
        decoded_auth_header == decode_base64_authorization_header(base64_auth_header)
    IN  IF IsRaised(decoded_auth_header) THEN decoded_auth_header
        ELSE extract_user_credentials(decoded_auth_header)

BasicAuth_current_user(store, request, store_fails) ==
    IF IsNone(request) THEN None
    ELSE LET credentials == RequestCredentials(request)
         IN  IF IsRaised(credentials) THEN credentials
             ELSE user_object_from_credentials(store, credentials.tuple[1],
                                               credentials.tuple[2], store_fails)

-----------------------------------------------------------------------------
(* api/v1/auth/auth.py *)

\* s.rstrip('/')
RECURSIVE RStrip(_, _)
RStrip(s, c) ==
    IF s # <<>> /\ s[Len(s)] = c THEN RStrip(SubSeq(s, 1, Len(s) - 1), c) ELSE s

Slash == 47
Star == 42

\* Auth.require_auth(path, excluded_paths); the first excluded path at or
\* after index i decides.
RECURSIVE ExcludedFrom(_, _, _)
ExcludedFrom(path, excluded_paths, i) ==
    IF i > Len(excluded_paths) THEN FALSE
    ELSE LET excluded_path == excluded_paths[i]
         IN  IF excluded_path # <<>> /\ excluded_path[Len(excluded_path)] = Star
             THEN LET normalized_excluded_path ==
                          Append(RStrip(SubSeq(excluded_path, 1,
                                               Len(excluded_path) - 1), Slash),
                                 Slash)
                  IN  IF StartsWith(path, normalized_excluded_path) THEN TRUE
                      ELSE ExcludedFrom(path, excluded_paths, i + 1)
             ELSE LET normalized_excluded_path ==
                          Append(RStrip(excluded_path, Slash), Slash)
                  IN  IF path = normalized_excluded_path THEN TRUE
                      ELSE ExcludedFrom(path, excluded_paths, i + 1)

\* The mutant: a path that already ends with '/' is left as it is.
require_auth_append_only(path, excluded_paths) ==
    IF IsNone(path) \/ IsNone(excluded_paths) THEN TRUE
    ELSE IF Len(excluded_paths.list) = 0 THEN TRUE
    ELSE ~ExcludedFrom(IF path.str # <<>> /\ path.str[Len(path.str)] = Slash
                       THEN path.str
                       ELSE Append(path.str, Slash),
                       excluded_paths.list, 1)

\* Auth.require_auth of 0x01-Basic_authentication: the excluded paths are
\* compared as they are.
require_auth_0x01(path, excluded_paths) ==
    IF IsNone(path) \/ IsNone(excluded_paths) THEN TRUE
    ELSE IF Len(excluded_paths.list) = 0 THEN TRUE
    ELSE \A i \in 1..Len(excluded_paths.list) :
             Append(RStrip(path.str, Slash), Slash) # excluded_paths.list[i]

\* The mutant: the excluded paths are compared as they are written.
require_auth_raw_entries(path, excluded_paths) ==
    IF IsNone(path) \/ IsNone(excluded_paths) THEN TRUE
    ELSE IF Len(excluded_paths.list) = 0 THEN TRUE
    ELSE \A i \in 1..Len(excluded_paths.list) :
             Append(RStrip(path.str, Slash), Slash) # excluded_paths.list[i]

require_auth(path, excluded_paths) ==
    IF IsNone(path) \/ IsNone(excluded_paths) THEN TRUE
    ELSE IF Len(excluded_paths.list) = 0 THEN TRUE
    ELSE ~ExcludedFrom(Append(RStrip(path.str, Slash), Slash),
                       excluded_paths.list, 1)

\* Auth.session_cookie(request): the cookie named by SESSION_NAME.
session_cookie(request) ==
    IF IsNone(request) THEN None ELSE request.cookie

-----------------------------------------------------------------------------
(* api/v1/auth/session_auth.py, session_exp_auth.py, session_db_auth.py *)

SessionClasses == {"SessionAuth", "SessionExpAuth", "SessionDBAuth"}

\* dict.get(key)
DictGet(d, key) == IF key \in DOMAIN d THEN d[key] ELSE None

\* d[key] = value
DictSet(d, key, value) ==
    [k \in DOMAIN d \cup {key} |-> IF k = key THEN value ELSE d[k]]

\* del d[key]
DictDel(d, key) == [k \in DOMAIN d \ {key} |-> d[k]]

\* A call's result: the value returned (or the exception raised) and the
\* session map and the persisted sessions it leaves.
Result(ret, reg, db) == [ret |-> ret, reg |-> reg, db |-> db]

\* The mutant: the new session is the only one the map keeps.
SessionAuth_create_session_alone(reg, db, user_id, session_id) ==
    IF IsNone(user_id) THEN Result(None, reg, db)
    ELSE IF ~IsStr(user_id) THEN Result(None, reg, db)
    ELSE Result(session_id, [k \in {session_id} |-> user_id], db)

\* SessionAuth.create_session; session_id is str(uuid.uuid4()).
SessionAuth_create_session(reg, db, user_id, session_id) ==
    IF IsNone(user_id) THEN Result(None, reg, db)
    ELSE IF ~IsStr(user_id) THEN Result(None, reg, db)
    ELSE Result(session_id, DictSet(reg, session_id, user_id), db)

\* int(s) for a str of an optional sign and decimal digits (the settings
\* carry no whitespace and no underscores); ValueError for anything else.
RECURSIVE DigitsValue(_)
DigitsValue(digits) ==
    IF digits = <<>> THEN 0
    ELSE 10 * DigitsValue(SubSeq(digits, 1, Len(digits) - 1))
         + (digits[Len(digits)] - 48)

int(s) ==
    LET signed == s # <<>> /\ s[1] \in {43, 45}
        digits == IF signed THEN SubSeq(s, 2, Len(s)) ELSE s
    IN  IF digits = <<>> \/ \E i \in 1..Len(digits) : digits[i] \notin 48..57
        THEN Raised("ValueError")
        ELSE IntVal(IF signed /\ s[1] = 45 THEN -DigitsValue(digits)
                    ELSE DigitsValue(digits))

\* SessionExpAuth.__init__: self.session_duration from SESSION_DURATION.
SessionExpAuth_init(setting) ==
    IF IsNone(setting) \/ setting.str = <<>> THEN 0
    ELSE LET parsed == int(setting.str)
         IN  IF IsRaised(parsed) THEN 0 ELSE parsed.int

\* The mutant: the session is left as the parent class stored it.
SessionExpAuth_create_session_no_record(reg, db, user_id, session_id, t) ==
    SessionAuth_create_session(reg, db, user_id, session_id)

\* SessionExpAuth.create_session at time t.
SessionExpAuth_create_session(reg, db, user_id, session_id, t) ==
    LET made == SessionAuth_create_session(reg, db, user_id, session_id)
    IN  IF IsNone(made.ret) THEN made
        ELSE Result(made.ret,
                    DictSet(made.reg, made.ret,
                            [user_id |-> user_id, created_at |-> t]),
                    db)

\* UserSession(user_id=..., session_id=...).save()
UserSession_save(db, user_id, session_id) ==
    DictSet(db, session_id, [user_id |-> user_id, session_id |-> session_id])

\* UserSession.get(session_id)
UserSession_get(db, session_id) == DictGet(db, session_id)

\* The mutant: the UserSession is built and never saved.
SessionDBAuth_create_session_unsaved(reg, db, user_id, session_id, t) ==
    SessionExpAuth_create_session(reg, db, user_id, session_id, t)

\* SessionDBAuth.create_session at time t.
SessionDBAuth_create_session(reg, db, user_id, session_id, t) ==
    LET made == SessionExpAuth_create_session(reg, db, user_id, session_id, t)
    IN  IF IsNone(made.ret) THEN made
        ELSE Result(made.ret, made.reg, UserSession_save(db, user_id, made.ret))

create_session(cls, reg, db, user_id, session_id, t) ==
    IF cls = "SessionAuth" THEN SessionAuth_create_session(reg, db, user_id, session_id)
    ELSE IF cls = "SessionExpAuth"
         THEN SessionExpAuth_create_session(reg, db, user_id, session_id, t)
    ELSE IF cls = "SessionDBAuth"
         THEN SessionDBAuth_create_session(reg, db, user_id, session_id, t)
    ELSE Result(Raised("AttributeError"), reg, db)

SessionAuth_user_id_for_session_id(reg, session_id) ==
    IF IsNone(session_id) THEN None
    ELSE IF ~IsStr(session_id) THEN None
    ELSE DictGet(reg, session_id)

\* session_data["user_id"] for what the session map holds under a key.
SessionUserId(session_data) ==
    IF "user_id" \in DOMAIN session_data THEN session_data.user_id
    ELSE Raised("TypeError")

\* The mutant: the session is over as soon as now reaches the expiration
\* time.
SessionExpAuth_user_id_for_session_id_early(reg, session_id, duration, t) ==
    IF IsNone(session_id) THEN None
    ELSE LET session_data == DictGet(reg, session_id)
         IN  IF IsNone(session_data) THEN None
             ELSE IF duration <= 0 THEN SessionUserId(session_data)
             ELSE IF "created_at" \notin DOMAIN session_data
                  THEN Raised("AttributeError")
             ELSE IF t >= session_data.created_at + duration THEN None
             ELSE SessionUserId(session_data)

\* The mutant: a duration of 0 is a duration like any other.
SessionExpAuth_user_id_for_session_id_zero(reg, session_id, duration, t) ==
    IF IsNone(session_id) THEN None
    ELSE LET session_data == DictGet(reg, session_id)
         IN  IF IsNone(session_data) THEN None
             ELSE IF duration < 0 THEN SessionUserId(session_data)
             ELSE IF "created_at" \notin DOMAIN session_data
                  THEN Raised("AttributeError")
             ELSE IF t > session_data.created_at + duration THEN None
             ELSE SessionUserId(session_data)

\* SessionExpAuth.user_id_for_session_id at time t.
SessionExpAuth_user_id_for_session_id(reg, session_id, duration, t) ==
    IF IsNone(session_id) THEN None
    ELSE LET session_data == DictGet(reg, session_id)
         IN  IF IsNone(session_data) THEN None
             ELSE IF duration <= 0 THEN SessionUserId(session_data)
             ELSE IF "created_at" \notin DOMAIN session_data
                  THEN Raised("AttributeError")
             ELSE IF t > session_data.created_at + duration THEN None
             ELSE SessionUserId(session_data)

SessionDBAuth_user_id_for_session_id(db, session_id) ==
    IF IsNone(session_id) THEN None
    ELSE LET user_session == UserSession_get(db, session_id)
         IN  IF IsNone(user_session) THEN None ELSE user_session.user_id

user_id_for_session_id(cls, reg, db, session_id, duration, t) ==
    IF cls = "SessionAuth" THEN SessionAuth_user_id_for_session_id(reg, session_id)
    ELSE IF cls = "SessionExpAuth"
         THEN SessionExpAuth_user_id_for_session_id(reg, session_id, duration, t)
    ELSE IF cls = "SessionDBAuth"
         THEN SessionDBAuth_user_id_for_session_id(db, session_id)
    ELSE Raised("AttributeError")

\* The mutant: a lookup that finds the session expired deletes its record.
user_id_for_session_id_writes_evicting(cls, reg, session_id, duration, t) ==
    IF /\ cls = "SessionExpAuth"
       /\ IsStr(session_id)
       /\ session_id \in DOMAIN reg
       /\ IsNone(SessionExpAuth_user_id_for_session_id(reg, session_id,
                                                       duration, t))
    THEN DictDel(reg, session_id)
    ELSE reg

\* The mutant: every lookup sweeps the expired sessions out of the map.
user_id_for_session_id_writes_sweeping(cls, reg, session_id, duration, t) ==
    IF cls = "SessionExpAuth" /\ duration > 0
    THEN [k \in {j \in DOMAIN reg : t <= reg[j].created_at + duration}
             |-> reg[k]]
    ELSE reg

\* The session map auth.user_id_for_session_id(session_id) leaves: none of
\* the three methods assigns to it or deletes from it.
user_id_for_session_id_writes(cls, reg, session_id, duration, t) ==
    reg

\* SessionDBAuth.destroy_session(request)
SessionDBAuth_destroy_session(reg, db, request) ==
    IF IsNone(request) THEN Result(Bool(FALSE), reg, db)
    ELSE LET session_id == session_cookie(request)
         IN  IF IsNone(session_id) THEN Result(Bool(FALSE), reg, db)
             ELSE IF IsNone(UserSession_get(db, session_id))
                  THEN Result(Bool(FALSE), reg, db)
             ELSE Result(Bool(TRUE), reg, DictDel(db, session_id))

\* auth.destroy_session(request): only SessionDBAuth defines the method.
destroy_session(cls, reg, db, request) ==
    IF cls = "SessionDBAuth" THEN SessionDBAuth_destroy_session(reg, db, request)
    ELSE Result(Raised("AttributeError"), reg, db)

\* SessionAuth.current_user(request), inherited by the three session classes.
SessionAuth_current_user(cls, store, reg, db, request, duration, t, store_fails) ==
    IF IsNone(request) THEN None
    ELSE LET session_id == session_cookie(request)
             user_id == user_id_for_session_id(cls, reg, db, session_id, duration, t)
         IN  IF IsRaised(user_id) THEN user_id
             ELSE IF IsNone(user_id) THEN None
             ELSE User_get(store, user_id, store_fails)

\* The mutant: the base class resolves the header's credentials as BasicAuth
\* does.
current_user_of_header(cls, store, reg, db, request, duration, t, store_fails) ==
    IF cls = "Auth" \/ cls = "BasicAuth"
    THEN BasicAuth_current_user(store, request, store_fails)
    ELSE SessionAuth_current_user(cls, store, reg, db, request, duration, t,
                                  store_fails)

\* auth.current_user(request) for the class of auth.
current_user(cls, store, reg, db, request, duration, t, store_fails) ==
    IF cls = "Auth" THEN None
    ELSE IF cls = "BasicAuth" THEN BasicAuth_current_user(store, request, store_fails)
    ELSE SessionAuth_current_user(cls, store, reg, db, request, duration, t,
                                  store_fails)

-----------------------------------------------------------------------------
(* api/v1/app.py: the strategy object and the request gate *)

\* auth_type = getenv("AUTH_TYPE"): the class app.py instantiates.
AppAuth(auth_type) == IF auth_type = "basic_auth" THEN "BasicAuth" ELSE "Auth"

\* '/api/v1/status/', '/api/v1/unauthorized/', '/api/v1/forbidden/'
excluded_paths ==
    List(
        <<<<47, 97, 112, 105, 47, 118, 49, 47, 115, 116, 97, 116, 117, 115, 47>>,
          <<47, 97, 112, 105, 47, 118, 49, 47, 117, 110, 97, 117, 116, 104, 111,
            114, 105, 122, 101, 100, 47>>,
          <<47, 97, 112, 105, 47, 118, 49, 47, 102, 111, 114, 98, 105, 100, 100,
            101, 110, 47>>>>)

\* request.current_user before the gate assigns it.
Unset == [unset |-> TRUE]

\* What the gate answers: Allow (the view runs), Unauthorized (abort(401)),
\* Forbidden (abort(403)) or Error (an exception left before_request), and
\* request.current_user.
Answer(status, user) == [status |-> status, current_user |-> user]

before_request(cls, store, reg, db, request, duration, t, store_fails) ==
    IF cls = "None" THEN Answer("Allow", Unset)
    ELSE IF ~require_auth(request.path, excluded_paths) THEN Answer("Allow", Unset)
    ELSE IF IsNone(authorization_header(request))
         THEN Answer("Unauthorized", Unset)
    ELSE LET user == current_user(cls, store, reg, db, request, duration, t,
                                  store_fails)
         IN  IF IsRaised(user) THEN Answer("Error", Unset)
             ELSE IF IsNone(user) THEN Answer("Forbidden", user)
             ELSE Answer("Allow", user)

-----------------------------------------------------------------------------
(* api/v1/views/session_auth.py *)

\* What the login view answers: the status, the cookie it sets and the
\* session map and store it leaves.
Reply(status, cookie, reg, db) ==
    [status |-> status, cookie |-> cookie, reg |-> reg, db |-> db]

\* login(): 400 for a missing email or password, 404 for an unknown email,
\* 401 for a wrong password; otherwise auth.create_session(user.id) and the
\* session id in the cookie. An exception leaving the view is answered 500.
login(cls, store, reg, db, form, session_id, t, store_fails) ==
    IF IsNone(form.email) \/ form.email = Str(<<>>)
    THEN Reply(400, None, reg, db)
    ELSE IF IsNone(form.password) \/ form.password = Str(<<>>)
         THEN Reply(400, None, reg, db)
    ELSE LET user_list == User_search(store, form.email, store_fails)
         IN  IF IsRaised(user_list) THEN Reply(500, None, reg, db)
             ELSE IF user_list.list = <<>> THEN Reply(404, None, reg, db)
             ELSE IF ~is_valid_password(user_list.list[1], form.password)
                  THEN Reply(401, None, reg, db)
             ELSE LET made == create_session(cls, reg, db, user_list.list[1].id,
                                             session_id, t)
                  IN  IF IsRaised(made.ret) THEN Reply(500, None, reg, db)
                      ELSE Reply(200, made.ret, made.reg, made.db)

\* logout(): 200 with {} when the session was destroyed, 404 when
\* destroy_session returned False, 500 when it raised.
logout(cls, reg, db, request) ==
    LET destroyed == destroy_session(cls, reg, db, request)
    IN  IF IsRaised(destroyed.ret) THEN [status |-> 500, reg |-> reg, db |-> db]
        ELSE IF ~destroyed.ret.bool
             THEN [status |-> 404, reg |-> destroyed.reg, db |-> destroyed.db]
        ELSE [status |-> 200, reg |-> destroyed.reg, db |-> destroyed.db]

-----------------------------------------------------------------------------
(* 0x03-user_authentication_service: db.py, auth.py *)

\* bcrypt.hashpw(password, salt): the salt and a digest that two passwords
\* share only when they are the same bytes.
hashpw(password, salt) == [salt |-> salt, digest |-> <<salt, password>>]

\* bcrypt.checkpw(password, hashed_password)
checkpw(password, hashed_password) ==
    hashpw(password, hashed_password.salt) = hashed_password

\* _hash_password(password) with the salt bcrypt.gensalt() returned.
hash_password(password, salt) == hashpw(Utf8Encode(password.str), salt)

\* _generate_uuid(): the n-th value of uuid.uuid4(), 't1', 't2', ...; the
\* values of uuid4 are taken never to repeat.
generate_uuid(n) == Str(<<116, 48 + n>>)

\* User(email=..., hashed_password=...) as the table stores it.
User(id, email, hashed_password) ==
    [id |-> id, email |-> email, hashed_password |-> hashed_password,
     session_id |-> None, reset_token |-> None]

\* DB.add_user: the new row has the next id.
add_user(table, email, hashed_password) ==
    Append(table, User(Len(table) + 1, email, hashed_password))

\* DB.find_user_by(column=value): the index of the one matching row;
\* query(...).one() raises NoResultFound for no row and, through the
\* except Exception clause, InvalidRequestError for several.
find_user_by(table, column, value) ==
    LET rows == {i \in 1..Len(table) : table[i][column] = value}
    IN  IF rows = {} THEN Raised("NoResultFound")
        ELSE IF Cardinality(rows) > 1 THEN Raised("InvalidRequestError")
        ELSE IntVal(CHOOSE i \in rows : TRUE)

\* What a method of Auth returns (or raises) and the table it leaves.
Outcome(ret, table) == [ret |-> ret, users |-> table]

\* The mutant: the user is added without looking for the email.
Auth_register_user_unchecked(table, email, password, salt) ==
    Outcome(IntVal(Len(table) + 1),
            add_user(table, email, hash_password(password, salt)))

\* Auth.register_user; returns the new row's index.
Auth_register_user(table, email, password, salt) ==
    LET found == find_user_by(table, "email", email)
    IN  IF found = Raised("NoResultFound")
        THEN Outcome(IntVal(Len(table) + 1),
                     add_user(table, email, hash_password(password, salt)))
        ELSE IF IsRaised(found) THEN Outcome(found, table)
        ELSE Outcome(Raised("ValueError"), table)

\* The mutant: any password is valid for a registered email.
Auth_valid_login_any(table, email, password) ==
    LET found == find_user_by(table, "email", email)
    IN  IF found = Raised("NoResultFound") THEN Bool(FALSE)
        ELSE IF IsRaised(found) THEN found
        ELSE Bool(TRUE)

\* Auth.valid_login
Auth_valid_login(table, email, password) ==
    LET found == find_user_by(table, "email", email)
    IN  IF found = Raised("NoResultFound") THEN Bool(FALSE)
        ELSE IF IsRaised(found) THEN found
        ELSE Bool(checkpw(Utf8Encode(password.str),
                          table[found.int].hashed_password))

\* Auth.create_session with session_id the value of _generate_uuid().
Auth_create_session(table, email, session_id) ==
    LET found == find_user_by(table, "email", email)
    IN  IF found = Raised("NoResultFound") THEN Outcome(None, table)
        ELSE IF IsRaised(found) THEN Outcome(found, table)
        ELSE Outcome(session_id,
                     [table EXCEPT ![found.int].session_id = session_id])

\* The mutant: the first user is returned for any session id.
Auth_get_user_from_session_id_first(table, session_id) ==
    IF IsNone(session_id) THEN None
    ELSE IF table = <<>> THEN None
    ELSE IntVal(1)

\* Auth.get_user_from_session_id; returns the row's index or None.
Auth_get_user_from_session_id(table, session_id) ==
    IF IsNone(session_id) THEN None
    ELSE LET found == find_user_by(table, "session_id", session_id)
         IN  IF found = Raised("NoResultFound") THEN None ELSE found

\* The mutant: the session id is left in place.
Auth_destroy_session_kept(table, user_id) ==
    Outcome(None, table)

\* Auth.destroy_session
Auth_destroy_session(table, user_id) ==
    LET found == find_user_by(table, "id", user_id)
    IN  IF found = Raised("NoResultFound") THEN Outcome(None, table)
        ELSE IF IsRaised(found) THEN Outcome(found, table)
        ELSE Outcome(None, [table EXCEPT ![found.int].session_id = None])

\* The mutant: the token is returned and not stored.
Auth_get_reset_password_token_unsaved(table, email, reset_token) ==
    LET found == find_user_by(table, "email", email)
    IN  IF found = Raised("NoResultFound")
        THEN Outcome(Raised("ValueError"), table)
        ELSE IF IsRaised(found) THEN Outcome(found, table)
        ELSE Outcome(reset_token, table)

\* Auth.get_reset_password_token with reset_token the value of
\* _generate_uuid().
Auth_get_reset_password_token(table, email, reset_token) ==
    LET found == find_user_by(table, "email", email)
    IN  IF found = Raised("NoResultFound")
        THEN Outcome(Raised("ValueError"), table)
        ELSE IF IsRaised(found) THEN Outcome(found, table)
        ELSE Outcome(reset_token,
                     [table EXCEPT ![found.int].reset_token = reset_token])

\* AUTH.update_password(reset_token=..., password=...): the class Auth has
\* no such attribute.
Auth_update_password(table, reset_token, password) ==
    Outcome(Raised("AttributeError"), table)

-----------------------------------------------------------------------------
(* 0x03-user_authentication_service: app.py *)

\* request.form.get(field) or ''
FormGet(value) == IF IsNone(value) THEN Str(<<>>) ELSE value

\* What a view answers: the status, the JSON body (or the redirect), the
\* cookie it sets, the table it leaves and how many uuids it drew.
Response(status, body, cookie, table, drawn) ==
    [status |-> status, body |-> body, cookie |-> cookie, users |-> table,
     drawn |-> drawn]

\* An exception left the view: Flask answers 500.
ServerError(table) == Response(500, [error |-> "Internal Server Error"], None,
                               table, 0)

\* POST /users
app_register_user(table, form, salt) ==
    LET email == FormGet(form.email)
        password == FormGet(form.password)
    IN  IF email = Str(<<>>) \/ password = Str(<<>>)
        THEN Response(400, [message |-> "email and password required"], None,
                      table, 0)
        ELSE LET registered == Auth_register_user(table, email, password, salt)
             IN  IF registered.ret = Raised("ValueError")
                 THEN Response(400, [message |-> "email already registered"],
                               None, registered.users, 0)
                 ELSE IF IsRaised(registered.ret)
                      THEN ServerError(registered.users)
                 ELSE Response(201, [email |-> email, message |-> "user created"],
                               None, registered.users, 0)

\* POST /sessions; session_id is the next value of _generate_uuid().
app_login(table, form, session_id) ==
    LET email == FormGet(form.email)
        password == FormGet(form.password)
    IN  IF email = Str(<<>>) \/ password = Str(<<>>)
        THEN Response(400, [message |-> "email and password required"], None,
                      table, 0)
        ELSE LET valid == Auth_valid_login(table, email, password)
             IN  IF IsRaised(valid) THEN ServerError(table)
                 ELSE IF ~valid.bool
                      THEN Response(401, [error |-> "Unauthorized"], None,
                                    table, 0)
                 ELSE LET created == Auth_create_session(table, email,
                                                         session_id)
                      IN  IF ~IsStr(created.ret)
                          THEN ServerError(created.users)
                          ELSE Response(200,
                                        [email |-> email,
                                         message |-> "logged in"],
                                        created.ret, created.users, 1)

\* DELETE /sessions
app_logout(table, cookie) ==
    IF IsNone(cookie) THEN Response(403, [error |-> "Forbidden"], None, table, 0)
    ELSE LET user == Auth_get_user_from_session_id(table, cookie)
         IN  IF IsRaised(user) THEN ServerError(table)
             ELSE IF IsNone(user)
                  THEN Response(403, [error |-> "Forbidden"], None, table, 0)
             ELSE LET destroyed == Auth_destroy_session(table,
                                                        table[user.int].id)
                  IN  IF IsRaised(destroyed.ret)
                      THEN ServerError(destroyed.users)
                      ELSE Response(302, [location |-> "/"], None,
                                    destroyed.users, 0)

\* GET /profile
app_profile(table, cookie) ==
    IF IsNone(cookie) THEN Response(403, [error |-> "Forbidden"], None, table, 0)
    ELSE LET user == Auth_get_user_from_session_id(table, cookie)
         IN  IF IsRaised(user) THEN ServerError(table)
             ELSE IF IsNone(user)
                  THEN Response(403, [error |-> "Forbidden"], None, table, 0)
             ELSE Response(200, [email |-> table[user.int].email], None,
                           table, 0)

\* POST /reset_password; reset_token is the next value of _generate_uuid().
app_get_reset_password_token(table, form, reset_token) ==
    LET email == FormGet(form.email)
    IN  IF email = Str(<<>>)
        THEN Response(400, [message |-> "email field is required"], None,
                      table, 0)
        ELSE LET issued == Auth_get_reset_password_token(table, email,
                                                         reset_token)
             IN  IF issued.ret = Raised("ValueError")
                 THEN Response(403, [message |-> "email not registered"], None,
                               issued.users, 0)
                 ELSE IF IsRaised(issued.ret) THEN ServerError(issued.users)
                 ELSE Response(200,
                               [email |-> email, reset_token |-> issued.ret],
                               None, issued.users, 1)

\* PUT /reset_password
app_update_password(table, form) ==
    LET email == FormGet(form.email)
        reset_token == FormGet(form.reset_token)
        new_password == FormGet(form.new_password)
    IN  IF email = Str(<<>>) \/ reset_token = Str(<<>>)
           \/ new_password = Str(<<>>)
        THEN Response(400,
                      [message |-> "email, reset_token, or new_password missing"],
                      None, table, 0)
        ELSE LET updated == Auth_update_password(table, reset_token,
                                                 new_password)
             IN  IF updated.ret = Raised("ValueError")
                 THEN Response(403, [message |-> "Invalid reset token"], None,
                               updated.users, 0)
                 ELSE IF IsRaised(updated.ret) THEN ServerError(updated.users)
                 ELSE Response(200,
                               [email |-> email, message |-> "Password updated"],
                               None, updated.users, 0)

-----------------------------------------------------------------------------
(* Bounds and inputs *)

MaxUsers == 2       \* users saved in the store
MaxIdLen == 1       \* code points of a presented identifier
MaxSecretLen == 2   \* code points of a presented secret
MaxTime == 3        \* seconds the clock runs
MaxPathLen == 3     \* code points of a path given to require_auth
MaxPatternLen == 2  \* code points of an excluded path
MaxRows == 2        \* rows of the service's users table
MaxUuids == 2       \* values _generate_uuid returns

Strings(chars, n) == UNION {[1..k -> chars] : k \in 0..n}

\* 'a', 'b'
IdChars == {97, 98}
\* 'p', ':'
SecretChars == {112, 58}

Identifiers == Strings(IdChars, MaxIdLen)
\* every short secret, and 'p' followed by U+00E9
Secrets == Strings(SecretChars, MaxSecretLen) \cup {<<112, 233>>}

\* The users the store may hold: (email, password).
Registrations == {<<<<97>>, <<112>>>>, <<<<97>>, <<58, 112>>>>, <<<<98>>, <<112>>>>}

\* "Basic " + base64(identifier + ":" + secret)
BasicHeader(identifier, secret) ==
    BasicPrefix \o b64encode(Utf8Encode(identifier \o <<Colon>> \o secret))

WellFormedHeaders ==
    {BasicHeader(i, s) : i \in Identifiers, s \in Secrets}
    \cup {BasicPrefix \o <<81, 87, 120, 104, 90, 71, 82, 112, 98, 106, 112,
                           118, 99, 71, 86, 117, 99, 50, 86, 122, 89, 87, 49,
                           108>>}    \* "Basic QWxhZGRpbjpvcGVuc2VzYW1l"

\* "YTpw", base64 of "a:p"
AP == b64encode(Utf8Encode(<<97, Colon, 112>>))

OtherHeaders ==
    { <<66, 101, 97, 114, 101, 114, 32>> \o AP,          \* "Bearer YTpw"
      <<66, 97, 115, 105, 99>> \o AP,                    \* "BasicYTpw"
      <<98, 97, 115, 105, 99, 32>> \o AP,                \* "basic YTpw"
      BasicPrefix,                                       \* "Basic "
      BasicPrefix \o SubSeq(AP, 1, 3),                   \* "Basic YTp"
      BasicPrefix \o SubSeq(AP, 1, 1),                   \* "Basic Y"
      BasicPrefix \o SubSeq(AP, 1, 2) \o <<Pad>>,        \* "Basic YT="
      BasicPrefix \o <<89, 84, 33, 112, 119>>,           \* "Basic YT!pw"
      BasicPrefix \o <<89, 84, 112, 119, 10>>,           \* "Basic YTpw\n"
      BasicPrefix \o <<89, 84, 112, 119, 61>>,           \* "Basic YTpw="
      BasicPrefix \o <<89, 84, 112, 119, 233>>,          \* "Basic YTpw" U+00E9
      BasicPrefix \o b64encode(<<255, Colon, 112>>),     \* not UTF-8
      BasicPrefix \o b64encode(<<97, 195>>),             \* cut UTF-8 sequence
      BasicPrefix \o b64encode(<<97, 112>>) }            \* "ap": no colon

Headers == {None} \cup {Str(h) : h \in WellFormedHeaders \cup OtherHeaders}

\* str(uuid.uuid4()) draws from these: "t1", "t2"
Tokens == {Str(<<116, 49>>), Str(<<116, 50>>)}

\* '/api/v1/status', '/api/v1/users'
Paths ==
    {Str(<<47, 97, 112, 105, 47, 118, 49, 47, 115, 116, 97, 116, 117, 115>>),
     Str(<<47, 97, 112, 105, 47, 118, 49, 47, 117, 115, 101, 114, 115>>)}

Requests ==
    [path : Paths, Authorization : Headers, cookie : {None, Str(<<116, 49>>)}]

\* AUTH_TYPE as the environment may set it (unset: "")
AuthTypes == {"basic_auth", "session_auth", ""}

\* SESSION_DURATION as the environment may set it: unset, '', '0', '2', '-1'
\* and 'x'
DurationSettings ==
    {None, Str(<<>>), Str(<<48>>), Str(<<50>>), Str(<<45, 49>>), Str(<<120>>)}

\* The worker threads that serve requests, and none of them inside a call.
Workers == {"w1", "w2"}
NoCalls == [w \in Workers |-> [pc |-> "idle"]]

\* The ids create_session is called with: "u1", "u2", "7", None and 7.
UserIds == {Str(<<117, 49>>), Str(<<117, 50>>), Str(<<55>>), None, IntVal(7)}

Idle == [op |-> "idle"]

-----------------------------------------------------------------------------
(* The API behind the gate: app.py with the strategy AUTH_TYPE selects *)

InitGate ==
    /\ \E auth_type \in AuthTypes : auth = AppAuth(auth_type)
    /\ SESSION_DURATION = None
    /\ session_duration = 0
    /\ threads = NoCalls
    /\ generated = 0
    /\ users = <<>>
    /\ user_id_by_session_id = <<>>
    /\ user_sessions = <<>>
    /\ now = 0
    /\ last = Idle

\* User(email=..., password=...).save()
SaveUser ==
    /\ last = Idle
    /\ Len(users) < MaxUsers
    /\ \E r \in Registrations :
           users' = Append(users, NewUser(Len(users) + 1, r[1], r[2]))
    /\ UNCHANGED <<settings, generated, threads, user_id_by_session_id,
                   user_sessions, now, last>>

\* A request arrives and before_request runs on it.
HandleRequest ==
    /\ last = Idle
    /\ \E request \in Requests, store_fails \in BOOLEAN :
           last' = [op |-> "before_request",
                    request |-> request,
                    store_fails |-> store_fails,
                    answer |-> before_request(auth, users, user_id_by_session_id,
                                              user_sessions, request,
                                              session_duration, now, store_fails)]
    /\ UNCHANGED <<settings, generated, threads, users, user_id_by_session_id,
                   user_sessions, now>>

\* The response is sent and the request context is dropped.
Respond ==
    /\ last # Idle
    /\ last' = Idle
    /\ UNCHANGED <<settings, generated, threads, users, user_id_by_session_id,
                   user_sessions, now>>

\* The header a client builds from an identifier and a secret goes through
\* the three extraction methods, as in current_user.
ExtractCredentials ==
    /\ last = Idle
    /\ \E identifier \in Identifiers, secret \in Secrets :
           LET request == [path |-> None,
                           Authorization |-> Str(BasicHeader(identifier, secret)),
                           cookie |-> None]
           IN  last' = [op |-> "extract_user_credentials",
                        identifier |-> identifier,
                        secret |-> secret,
                        ret |-> RequestCredentials(request)]
    /\ UNCHANGED <<settings, generated, threads, users, user_id_by_session_id,
                   user_sessions, now>>

NextGate == SaveUser \/ HandleRequest \/ ExtractCredentials \/ Respond

SpecGate == InitGate /\ [][NextGate]_vars

-----------------------------------------------------------------------------
(* Logging in through the gate: POST /api/v1/auth_session/login *)

\* '/api/v1/auth_session/login'
LoginPath ==
    Str(<<47, 97, 112, 105, 47, 118, 49, 47, 97, 117, 116, 104, 95, 115, 101,
          115, 115, 105, 111, 110, 47, 108, 111, 103, 105, 110>>)

\* The request a client sends to the login route: without credentials or
\* with the Basic header of 'a:p', and the form fields '', 'a', 'b' and
\* 'p', 'q' or none.
LoginRequests ==
    [path : {LoginPath},
     Authorization : {None, Str(BasicHeader(<<97>>, <<112>>))},
     cookie : {None}]
LoginForms ==
    [email : {None, Str(<<97>>), Str(<<98>>)},
     password : {None, Str(<<112>>), Str(<<113>>)}]

InitLogin == InitGate

\* POST /api/v1/auth_session/login: before_request runs on the request and,
\* when it lets the request through, the view.
PostLogin ==
    /\ last = Idle
    /\ \E request \in LoginRequests, form \in LoginForms,
          session_id \in Tokens, store_fails \in BOOLEAN :
        LET answer == before_request(auth, users, user_id_by_session_id,
                                     user_sessions, request, session_duration,
                                     now, store_fails)
            response == login(auth, users, user_id_by_session_id,
                              user_sessions, form, session_id, now, store_fails)
        IN  IF answer.status = "Allow"
            THEN /\ user_id_by_session_id' = response.reg
                 /\ user_sessions' = response.db
                 /\ last' = [op |-> "login", request |-> request,
                             form |-> form, store_fails |-> store_fails,
                             answer |-> answer, response |-> response]
            ELSE /\ last' = [op |-> "login", request |-> request,
                             form |-> form, store_fails |-> store_fails,
                             answer |-> answer, response |-> None]
                 /\ UNCHANGED <<user_id_by_session_id, user_sessions>>
    /\ UNCHANGED <<settings, generated, threads, users, now>>

NextLogin == SaveUser \/ PostLogin \/ Respond

SpecLogin == InitLogin /\ [][NextLogin]_vars

-----------------------------------------------------------------------------
(* Auth.require_auth called on its own *)

\* '/', 'a', 'A'
PathChars == {47, 97, 65}
\* '/', 'a', '*'
PatternChars == {47, 97, 42}

\* '/api/v1/status', '/api/v1/stats/' and the pattern '/api/v1/stat*'
StatusPath == <<47, 97, 112, 105, 47, 118, 49, 47, 115, 116, 97, 116, 117, 115>>
StatsPath == <<47, 97, 112, 105, 47, 118, 49, 47, 115, 116, 97, 116, 115, 47>>
StatPattern == <<47, 97, 112, 105, 47, 118, 49, 47, 115, 116, 97, 116, 42>>

\* The paths require_auth is given: None, every short str and the two
\* documented paths.
PathInputs ==
    {None} \cup {Str(path) : path \in Strings(PathChars, MaxPathLen)
                                      \cup {StatusPath, StatsPath}}

\* The excluded_paths it is given: None and every list of at most two
\* patterns, each a short str or the documented pattern.
ExclusionLists ==
    {None} \cup {List(l) : l \in Strings(Strings(PatternChars, MaxPatternLen)
                                             \cup {StatPattern}, 2)}

InitPaths ==
    /\ auth = "Auth"
    /\ SESSION_DURATION = None
    /\ session_duration = 0
    /\ threads = NoCalls
    /\ generated = 0
    /\ users = <<>>
    /\ user_id_by_session_id = <<>>
    /\ user_sessions = <<>>
    /\ now = 0
    /\ last = Idle

\* auth.require_auth(path, excluded_paths), with the method of either project
RequireAuth ==
    /\ last = Idle
    /\ \E path \in PathInputs, excluded \in ExclusionLists :
        last' = [op |-> "require_auth", path |-> path,
                 excluded_paths |-> excluded,
                 ret |-> require_auth(path, excluded),
                 ret_0x01 |-> require_auth_0x01(path, excluded)]
    /\ UNCHANGED <<settings, generated, threads, users, user_id_by_session_id,
                   user_sessions, now>>

\* require_auth returns to its caller.
ReturnPaths ==
    /\ last # Idle
    /\ last' = Idle
    /\ UNCHANGED <<settings, generated, threads, users, user_id_by_session_id,
                   user_sessions, now>>

NextPaths == RequireAuth \/ ReturnPaths

SpecPaths == InitPaths /\ [][NextPaths]_vars

-----------------------------------------------------------------------------
(* A session strategy object and the calls made on it *)

InitSession ==
    /\ auth \in SessionClasses
    /\ SESSION_DURATION \in DurationSettings
    /\ session_duration = SessionExpAuth_init(SESSION_DURATION)
    /\ threads = NoCalls
    /\ generated = 0
    /\ users = <<NewUser(1, <<97>>, <<112>>), NewUser(2, <<98>>, <<112>>)>>
    /\ user_id_by_session_id = <<>>
    /\ user_sessions = <<>>
    /\ now = 0
    /\ last = Idle

\* auth.create_session(user_id)
CreateSession ==
    /\ last = Idle
    /\ \E user_id \in UserIds, session_id \in Tokens :
        LET r == create_session(auth, user_id_by_session_id, user_sessions,
                                user_id, session_id, now)
        IN  /\ user_id_by_session_id' = r.reg
            /\ user_sessions' = r.db
            /\ last' = [op |-> "create_session", user_id |-> user_id,
                        ret |-> r.ret,
                        reg |-> user_id_by_session_id, db |-> user_sessions]
    /\ UNCHANGED <<settings, generated, threads, users, now>>

\* auth.user_id_for_session_id(session_id)
LookupSession ==
    /\ last = Idle
    /\ \E session_id \in Tokens \cup {None} :
        /\ last' = [op |-> "user_id_for_session_id", session_id |-> session_id,
                    ret |-> user_id_for_session_id(auth, user_id_by_session_id,
                                                   user_sessions, session_id,
                                                   session_duration, now),
                    reg |-> user_id_by_session_id, db |-> user_sessions]
        /\ user_id_by_session_id' =
               user_id_for_session_id_writes(auth, user_id_by_session_id,
                                             session_id, session_duration, now)
    /\ UNCHANGED <<settings, generated, threads, users, user_sessions, now>>

\* DELETE /api/v1/auth_session/logout with or without the session cookie
SessionRequests ==
    [path : {Str(<<47, 97, 112, 105, 47, 118, 49, 47, 97, 117, 116, 104, 95,
                   115, 101, 115, 115, 105, 111, 110, 47, 108, 111, 103, 111,
                   117, 116>>)},
     Authorization : {None}, cookie : Tokens \cup {None}]

\* auth.current_user(request)
CurrentUser ==
    /\ last = Idle
    /\ \E request \in SessionRequests :
        last' = [op |-> "current_user", request |-> request,
                 ret |-> current_user(auth, users, user_id_by_session_id,
                                      user_sessions, request, session_duration,
                                      now, FALSE)]
    /\ UNCHANGED <<settings, generated, threads, users, user_id_by_session_id,
                   user_sessions, now>>

\* auth.destroy_session(request)
DestroySession ==
    /\ last = Idle
    /\ \E request \in SessionRequests \cup {None} :
        LET r == destroy_session(auth, user_id_by_session_id, user_sessions,
                                 request)
        IN  /\ user_id_by_session_id' = r.reg
            /\ user_sessions' = r.db
            /\ last' = [op |-> "destroy_session", request |-> request,
                        ret |-> r.ret,
                        reg |-> user_id_by_session_id, db |-> user_sessions]
    /\ UNCHANGED <<settings, generated, threads, users, now>>

\* DELETE /api/v1/auth_session/logout
Logout ==
    /\ last = Idle
    /\ \E request \in SessionRequests :
        LET r == logout(auth, user_id_by_session_id, user_sessions, request)
        IN  /\ user_id_by_session_id' = r.reg
            /\ user_sessions' = r.db
            /\ last' = [op |-> "logout", request |-> request,
                        status |-> r.status,
                        reg |-> user_id_by_session_id, db |-> user_sessions]
    /\ UNCHANGED <<settings, generated, threads, users, now>>

\* The clock advances by a second.
Tick ==
    /\ last = Idle
    /\ now < MaxTime
    /\ now' = now + 1
    /\ UNCHANGED <<settings, generated, threads, users, user_id_by_session_id,
                   user_sessions, last>>

\* The process stops and starts again: the modules are imported anew, so the
\* class attribute user_id_by_session_id is {} again, and api/v1/views loads
\* the saved records of User and of no other class.
Restart ==
    /\ last = Idle
    /\ user_id_by_session_id' = <<>>
    /\ user_sessions' = <<>>
    /\ last' = [op |-> "restart", reg |-> user_id_by_session_id,
                db |-> user_sessions]
    /\ UNCHANGED <<settings, generated, threads, users, now>>

\* The call returns to its caller.
Return ==
    /\ last # Idle
    /\ last' = Idle
    /\ UNCHANGED <<settings, generated, threads, users, user_id_by_session_id,
                   user_sessions, now>>

NextSession ==
    \/ CreateSession
    \/ LookupSession
    \/ CurrentUser
    \/ DestroySession
    \/ Logout
    \/ Tick
    \/ Restart
    \/ Return

SpecSession == InitSession /\ [][NextSession]_vars

-----------------------------------------------------------------------------
(* One session strategy object called from the worker threads of the server: *)
(* a thread may be switched out between any two statements of a method, and  *)
(* every statement that reads or writes the shared maps is a step. The calls *)
(* overlap within one tick of the clock.                                     *)

InitConcurrent == InitSession

Calling(w, call) == [threads EXCEPT ![w] = call]

\* create_session, up to the return of SessionAuth.create_session: the id is
\* stored under the new token (session_auth.py line 48).
StoreUserId(w) ==
    /\ threads[w].pc = "idle"
    /\ \E user_id \in {Str(<<55>>), None}, session_id \in Tokens :
        LET made == SessionAuth_create_session(user_id_by_session_id,
                                               user_sessions, user_id, session_id)
        IN  /\ user_id_by_session_id' = made.reg
            /\ threads' = IF auth = "SessionAuth" \/ IsNone(made.ret)
                          THEN threads
                          ELSE Calling(w, [pc |-> "record", user_id |-> user_id,
                                           session_id |-> session_id])
    /\ UNCHANGED <<settings, generated, users, user_sessions, now, last>>

\* SessionExpAuth.create_session, the assignment of the session dictionary
\* (session_exp_auth.py lines 41-44).
StoreSessionRecord(w) ==
    /\ threads[w].pc = "record"
    /\ user_id_by_session_id' =
           DictSet(user_id_by_session_id, threads[w].session_id,
                   [user_id |-> threads[w].user_id, created_at |-> now])
    /\ threads' = IF auth = "SessionDBAuth"
                  THEN Calling(w, [threads[w] EXCEPT !.pc = "save"])
                  ELSE Calling(w, [pc |-> "idle"])
    /\ UNCHANGED <<settings, generated, users, user_sessions, now, last>>

\* SessionDBAuth.create_session, user_session.save() (session_db_auth.py
\* lines 30-31).
SaveUserSession(w) ==
    /\ threads[w].pc = "save"
    /\ user_sessions' = UserSession_save(user_sessions, threads[w].user_id,
                                         threads[w].session_id)
    /\ threads' = Calling(w, [pc |-> "idle"])
    /\ UNCHANGED <<settings, generated, users, user_id_by_session_id, now, last>>

\* user_id_for_session_id: one read of the map (or of the store), the rest
\* works on what was read.
LookupConcurrent(w) ==
    /\ threads[w].pc = "idle"
    /\ \E session_id \in Tokens :
        last' = [op |-> "user_id_for_session_id", session_id |-> session_id,
                 ret |-> user_id_for_session_id(auth, user_id_by_session_id,
                                                user_sessions, session_id,
                                                session_duration, now),
                 session_data |-> DictGet(user_id_by_session_id, session_id)]
    /\ UNCHANGED <<settings, generated, threads, users, user_id_by_session_id,
                   user_sessions, now>>

\* SessionDBAuth.destroy_session, up to UserSession.get finding the record
\* (session_db_auth.py lines 51-62).
FindUserSession(w) ==
    /\ threads[w].pc = "idle"
    /\ auth = "SessionDBAuth"
    /\ \E request \in SessionRequests :
        /\ ~IsNone(session_cookie(request))
        /\ ~IsNone(UserSession_get(user_sessions, session_cookie(request)))
        /\ threads' = Calling(w, [pc |-> "remove",
                                  session_id |-> session_cookie(request)])
    /\ UNCHANGED <<settings, generated, users, user_id_by_session_id, user_sessions, now,
                   last>>

\* SessionDBAuth.destroy_session, user_session.remove() (line 64).
RemoveUserSession(w) ==
    /\ threads[w].pc = "remove"
    /\ user_sessions' = DictDel(user_sessions, threads[w].session_id)
    /\ threads' = Calling(w, [pc |-> "idle"])
    /\ UNCHANGED <<settings, generated, users, user_id_by_session_id, now, last>>

NextConcurrent ==
    \/ \E w \in Workers : StoreUserId(w)
    \/ \E w \in Workers : StoreSessionRecord(w)
    \/ \E w \in Workers : SaveUserSession(w)
    \/ \E w \in Workers : LookupConcurrent(w)
    \/ \E w \in Workers : FindUserSession(w)
    \/ \E w \in Workers : RemoveUserSession(w)

SpecConcurrent == InitConcurrent /\ [][NextConcurrent]_vars

-----------------------------------------------------------------------------
(* The user authentication service: app.py answering one request at a time *)

\* The form fields a client sends: nothing, '' or a short str.
\* 'a', 'b'
Emails == {None, Str(<<>>), Str(<<97>>), Str(<<98>>)}
\* 'p', 'q'
Passwords == {None, Str(<<112>>), Str(<<113>>)}

\* The value bcrypt.gensalt() returns.
Salts == {"s1"}

\* The session_id cookie and the reset_token a client sends: none, any
\* value _generate_uuid has returned so far, or something else ('x').
ClientTokens ==
    {None, Str(<<120>>)} \cup {generate_uuid(n) : n \in 1..generated}

InitService ==
    /\ auth = "Auth"
    /\ SESSION_DURATION = None
    /\ session_duration = 0
    /\ threads = NoCalls
    /\ generated = 0
    /\ users = <<>>
    /\ user_id_by_session_id = <<>>
    /\ user_sessions = <<>>
    /\ now = 0
    /\ last = Idle

\* The request was answered: the table and the uuid count the view leaves.
Answered(op, form, cookie, response) ==
    /\ users' = response.users
    /\ generated' = generated + response.drawn
    /\ last' = [op |-> op, form |-> form, cookie |-> cookie,
                response |-> response, users |-> users]
    /\ UNCHANGED <<settings, threads, user_id_by_session_id, user_sessions, now>>

\* POST /users
RegisterUser ==
    \E email \in Emails, password \in Passwords, salt \in Salts :
        LET form == [email |-> email, password |-> password]
            response == app_register_user(users, form, salt)
        IN  /\ Len(response.users) <= MaxRows
            /\ Answered("register_user", form, None, response)

\* POST /sessions
Login ==
    /\ generated < MaxUuids
    /\ \E email \in Emails, password \in Passwords :
        LET form == [email |-> email, password |-> password]
        IN  Answered("login", form, None,
                     app_login(users, form, generate_uuid(generated + 1)))

\* DELETE /sessions
LogoutService ==
    \E cookie \in ClientTokens :
        Answered("logout", None, cookie, app_logout(users, cookie))

\* GET /profile
Profile ==
    \E cookie \in ClientTokens :
        Answered("profile", None, cookie, app_profile(users, cookie))

\* POST /reset_password
GetResetPasswordToken ==
    /\ generated < MaxUuids
    /\ \E email \in Emails :
        LET form == [email |-> email]
        IN  Answered("get_reset_password_token", form, None,
                     app_get_reset_password_token(users, form,
                                                  generate_uuid(generated + 1)))

\* PUT /reset_password
UpdatePassword ==
    \E email \in {None, Str(<<97>>)}, reset_token \in ClientTokens,
       new_password \in {None, Str(<<113>>)} :
        LET form == [email |-> email, reset_token |-> reset_token,
                     new_password |-> new_password]
        IN  Answered("update_password", form, None,
                     app_update_password(users, form))

NextService ==
    \/ RegisterUser
    \/ Login
    \/ LogoutService
    \/ Profile
    \/ GetResetPasswordToken
    \/ UpdatePassword

SpecService == InitService /\ [][NextService]_vars

-----------------------------------------------------------------------------
(* Auth.register_user called from the worker threads of the server: a thread *)
(* may be switched out between the lookup and the insert.                    *)

InitRegister == InitService

\* register_user up to the lookup (auth.py lines 35-38): find_user_by either
\* raises NoResultFound, and the thread goes on to the insert, or the call
\* ends with ValueError (or with what find_user_by raised).
FindUser(w) ==
    /\ threads[w].pc = "idle"
    /\ \E email \in {Str(<<97>>), Str(<<98>>)},
          password \in {Str(<<112>>), Str(<<113>>)} :
        LET found == find_user_by(users, "email", email)
            inside == {v \in Workers : threads[v].pc # "idle"}
        IN  IF found = Raised("NoResultFound")
            THEN /\ Len(users) + Cardinality(inside) < MaxRows
                 /\ threads' = Calling(w, [pc |-> "add", email |-> email,
                                           password |-> password])
                 /\ UNCHANGED last
            ELSE /\ last' = [op |-> "register_user", email |-> email,
                             ret |-> IF IsRaised(found) THEN found
                                     ELSE Raised("ValueError")]
                 /\ UNCHANGED threads
    /\ UNCHANGED <<settings, generated, users, user_id_by_session_id,
                   user_sessions, now>>

\* register_user, the insert (auth.py lines 40-43): the password is hashed
\* and add_user commits the new row.
AddUser(w) ==
    /\ threads[w].pc = "add"
    /\ \E salt \in Salts :
        users' = add_user(users, threads[w].email,
                          hash_password(threads[w].password, salt))
    /\ threads' = Calling(w, [pc |-> "idle"])
    /\ last' = [op |-> "register_user", email |-> threads[w].email,
                ret |-> IntVal(Len(users) + 1)]
    /\ UNCHANGED <<settings, generated, user_id_by_session_id, user_sessions,
                   now>>

\* A later valid_login, with the lookup it starts with (auth.py line 56).
ValidLogin(w) ==
    /\ threads[w].pc = "idle"
    /\ \E email \in {Str(<<97>>), Str(<<98>>)},
          password \in {Str(<<112>>), Str(<<113>>)} :
        last' = [op |-> "valid_login", email |-> email, password |-> password,
                 found |-> find_user_by(users, "email", email),
                 ret |-> Auth_valid_login(users, email, password)]
    /\ UNCHANGED <<settings, generated, threads, users, user_id_by_session_id,
                   user_sessions, now>>

NextRegister ==
    \/ \E w \in Workers : FindUser(w)
    \/ \E w \in Workers : AddUser(w)
    \/ \E w \in Workers : ValidLogin(w)

SpecRegister == InitRegister /\ [][NextRegister]_vars

-----------------------------------------------------------------------------
(* Properties of the gate and of BasicAuth, under SpecGate *)

Gated == last.op = "before_request"

\* The gated request's path is not among the excluded paths.
NeedsAuth == require_auth(last.request.path, excluded_paths)

HasHeader == ~IsNone(last.request.Authorization)
HasCookie == ~IsNone(last.request.cookie)

\* C1: for a request whose path requires authentication the gate answers
\* Unauthorized (401) if and only if the request carries neither an
\* Authorization header nor the session cookie.
C1_UnauthorizedIffNoCredential ==
    (Gated /\ NeedsAuth) =>
        (last.answer.status = "Unauthorized" <=> (~HasHeader /\ ~HasCookie))

\* C2: a request whose path requires authentication and that presents a
\* credential (a header or a session cookie) is answered Forbidden (403) when
\* current_user is absent, and is otherwise allowed with the principal attached
\* as request.current_user; it is never allowed with no principal attached.
C2_ForbiddenOrPrincipalAttached ==
    (Gated /\ NeedsAuth /\ (HasHeader \/ HasCookie) /\ ~last.store_fails) =>
        LET user == current_user(auth, users, user_id_by_session_id,
                                 user_sessions, last.request, session_duration,
                                 now, FALSE)
        IN  /\ IsNone(user) => last.answer.status = "Forbidden"
            /\ ~IsNone(user) => /\ last.answer.status = "Allow"
                                /\ last.answer.current_user = user
            /\ last.answer.status = "Allow" =>
                   "email" \in DOMAIN last.answer.current_user

\* C3: the gate's outcome is always one of Allow, Unauthorized (401) and
\* Forbidden (403); a failing credential store lookup ends in Forbidden and no
\* exception leaves the gate.
C3_GateNeverRaises ==
    Gated => /\ last.answer.status \in {"Allow", "Unauthorized", "Forbidden"}
             /\ (last.store_fails /\ NeedsAuth /\ HasHeader)
                    => last.answer.status = "Forbidden"

\* The payload of a header that starts with "Basic ".
Payload(header) == SubSeq(header, Len(BasicPrefix) + 1, Len(header))

\* RFC 4648 Base64: groups of four alphabet characters, the last group ending
\* in at most two '='.
IsBase64(s) ==
    /\ Len(s) % 4 = 0
    /\ \A i \in 1..Len(s) :
           \/ B64Value(s[i]) < 64
           \/ /\ s[i] = Pad
              /\ i >= Len(s) - 1
              /\ (i = Len(s) - 1 => s[Len(s)] = Pad)

\* The bytes a payload stands for, read by the permissive decoder.
PayloadBytes(s) ==
    LET r == b64decode(s) IN IF IsRaised(r) THEN <<>> ELSE r.bytes

\* The text a payload stands for, <<>> when its bytes are not UTF-8.
PayloadText(s) ==
    LET t == Utf8Decode(PayloadBytes(s)) IN IF IsRaised(t) THEN <<>> ELSE t.str

\* A header as C4 describes it: no "Basic " prefix, a payload that is not
\* valid Base64 or not valid UTF-8, or a decoded text without a colon.
Malformed(header) ==
    \/ ~StartsWith(header, BasicPrefix)
    \/ ~IsBase64(Payload(header))
    \/ IsRaised(Utf8Decode(PayloadBytes(Payload(header))))
    \/ Find(PayloadText(Payload(header)), Colon) = 0

\* The same, with "not valid Base64" read as the decoder reads it: only a
\* payload b64decode rejects (a non-ASCII character, or an incomplete final
\* quantum once the characters outside the alphabet are skipped).
Rejected(header) ==
    \/ ~StartsWith(header, BasicPrefix)
    \/ IsRaised(b64decode(Payload(header)))
    \/ IsRaised(Utf8Decode(PayloadBytes(Payload(header))))
    \/ Find(PayloadText(Payload(header)), Colon) = 0

GatedBasic == Gated /\ auth = "BasicAuth" /\ NeedsAuth /\ HasHeader

\* C4 as stated: under BasicAuth a header without the "Basic " prefix, with a
\* payload that is not valid Base64 or not valid UTF-8, or with no colon in
\* the decoded text, is answered Forbidden (403).
C4_MalformedForbidden ==
    (GatedBasic /\ Malformed(last.request.Authorization.str)) =>
        last.answer.status = "Forbidden"

\* C4 amended: under BasicAuth a header without the "Basic " prefix, with a
\* payload the Base64 decoder rejects or that is not valid UTF-8, or with no
\* colon in the decoded text, makes current_user absent without raising: the
\* gate answers Forbidden (403).
C4_RejectedForbidden ==
    (GatedBasic /\ Rejected(last.request.Authorization.str)) =>
        /\ last.answer.status = "Forbidden"
        /\ IsNone(last.answer.current_user)

\* C4's case: a payload with an incomplete quantum, one that is not UTF-8 and
\* a header of another scheme have each been answered Forbidden while the
\* store held the user the credentials would name.
C4_Witness ==
    /\ GatedBasic
    /\ Len(users) > 0
    /\ ~last.store_fails
    /\ last.answer.status = "Forbidden"
    /\ StartsWith(last.request.Authorization.str, BasicPrefix)
    /\ IsRaised(b64decode(Payload(last.request.Authorization.str)))

\* The stored users whose email is the identifier.
Matching(identifier) == SelectSeq(users, LAMBDA u : u.email = identifier)

\* The (identifier, secret) pair decoded from the gated request's header.
Decoded == RequestCredentials(last.request).tuple

\* The gated request went through BasicAuth with a header that decodes to an
\* identifier and a secret, and the store answered.
GatedCredentials ==
    /\ GatedBasic
    /\ ~last.store_fails
    /\ ~IsRaised(RequestCredentials(last.request))
    /\ IsStr(Decoded[1])

\* C5: BasicAuth.current_user returns a principal only if the decoded
\* identifier is its email and the decoded secret verifies against its stored
\* password; the one user registered with the email is returned for the
\* correct secret, and a secret that verifies for no user of that email gives
\* absence.
C5_PrincipalOnlyForItsCredentials ==
    GatedCredentials =>
        LET user == last.answer.current_user
            found == Matching(Decoded[1])
        IN  /\ ~IsNone(user) => /\ user.email = Decoded[1]
                                /\ user.password = Sha256(Decoded[2].str)
                                /\ user \in {users[k] : k \in 1..Len(users)}
                                /\ last.answer.status = "Allow"
            /\ (Len(found) = 1 /\ found[1].password = Sha256(Decoded[2].str))
                   => user = found[1]
            /\ (\A k \in 1..Len(found) :
                    found[k].password # Sha256(Decoded[2].str))
                   => /\ IsNone(user)
                      /\ last.answer.status = "Forbidden"

\* C5's case: the email 'b' is registered once, after another user, and the
\* header of ('b', 'p') resolved to that user.
C5_Witness ==
    /\ GatedCredentials
    /\ Len(users) = 2
    /\ Decoded = <<Str(<<98>>), Str(<<112>>)>>
    /\ Len(Matching(Str(<<98>>))) = 1
    /\ last.answer.current_user = users[2]
    /\ last.answer.status = "Allow"

\* A registered email with a secret that is not its password was refused.
C5_WrongSecretRefused ==
    /\ GatedCredentials
    /\ Decoded = <<Str(<<97>>), Str(<<112, 112>>)>>
    /\ Len(Matching(Str(<<97>>))) = 1
    /\ last.answer.status = "Forbidden"

\* C6: when the store holds more than one user with the presented identifier,
\* BasicAuth resolves to no principal.
C6_NotUniqueIsAbsent ==
    (GatedCredentials /\ Len(Matching(Decoded[1])) > 1)
        => IsNone(last.answer.current_user)

\* C7: for an identifier without a colon and any secret, the credentials
\* extracted from "Basic " + base64(identifier + ":" + secret) are exactly
\* (identifier, secret): the decoded text is cut at its first colon only.
C7_SplitOnFirstColon ==
    last.op = "extract_user_credentials" =>
        last.ret = Tuple(<<Str(last.identifier), Str(last.secret)>>)

\* C7's case: a secret that itself holds a colon came back whole.
C7_Witness ==
    /\ last.op = "extract_user_credentials"
    /\ last.identifier = <<97>>
    /\ last.secret = <<58, 112>>
    /\ last.ret = Tuple(<<Str(<<97>>), Str(<<58, 112>>)>>)

\* The documented example: "Basic QWxhZGRpbjpvcGVuc2VzYW1l" is
\* ("Aladdin", "opensesame").
AladdinExample ==
    (Gated /\ last.request.Authorization =
        Str(BasicPrefix \o <<81, 87, 120, 104, 90, 71, 82, 112, 98, 106, 112,
                             118, 99, 71, 86, 117, 99, 50, 86, 122, 89, 87, 49,
                             108>>))
        => Decoded = <<Str(<<65, 108, 97, 100, 100, 105, 110>>),
                       Str(<<111, 112, 101, 110, 115, 101, 115, 97, 109, 101>>)>>

-----------------------------------------------------------------------------
(* Properties of the session strategies, under SpecSession *)

\* What auth.user_id_for_session_id(session_id) returns in the state reg, db.
Resolve(reg, db, session_id) ==
    user_id_for_session_id(auth, reg, db, session_id, session_duration, now)

\* C8: for SessionAuth and SessionExpAuth and a valid (str) principal id,
\* user_id_for_session_id(create_session(pid)) is pid right after creation.
C8_CreateThenResolve ==
    (/\ last.op = "create_session"
     /\ auth \in {"SessionAuth", "SessionExpAuth"}
     /\ IsStr(last.user_id))
        => /\ IsStr(last.ret)
           /\ Resolve(user_id_by_session_id, user_sessions, last.ret) = last.user_id

\* C8's case: SessionExpAuth with a positive duration has just created a
\* session, at a time after the start, over a token that held another user.
C8_Witness ==
    /\ last.op = "create_session"
    /\ auth = "SessionExpAuth"
    /\ session_duration > 0
    /\ now > 0
    /\ IsStr(last.ret)
    /\ Cardinality(DOMAIN user_id_by_session_id) = 2
    /\ Resolve(user_id_by_session_id, user_sessions, last.ret) = last.user_id

\* The session cookie's token resolved to a principal id before the call.
WasLive ==
    /\ ~IsNone(last.request)
    /\ ~IsNone(last.request.cookie)
    /\ IsStr(user_id_for_session_id(auth, last.reg, last.db, last.request.cookie,
                                    session_duration, now))

\* C9: once a session was created and its token T resolves, logging out with
\* the cookie T destroys the session: the logout succeeds and from then on T
\* resolves to no principal.
C9_LogoutEndsSession ==
    (last.op = "logout" /\ WasLive) =>
        /\ last.status = 200
        /\ IsNone(Resolve(user_id_by_session_id, user_sessions,
                          last.request.cookie))
        /\ IsNone(current_user(auth, users, user_id_by_session_id,
                               user_sessions, last.request, session_duration,
                               now, FALSE))

\* C10: for every session strategy destroy_session returns True exactly when
\* the request's session token has a live record, which it removes; it
\* returns False and changes nothing otherwise; after a successful destroy the
\* token resolves to nothing and a second destroy returns False.
C10_DestroyReturnsWhetherLive ==
    last.op = "destroy_session" =>
        /\ last.ret = Bool(WasLive)
        /\ WasLive =>
               /\ IsNone(Resolve(user_id_by_session_id, user_sessions,
                                 last.request.cookie))
               /\ destroy_session(auth, user_id_by_session_id, user_sessions,
                                  last.request).ret = Bool(FALSE)
        /\ ~WasLive => /\ user_id_by_session_id = last.reg
                       /\ user_sessions = last.db

\* The principal id a session map entry holds: the id itself (SessionAuth) or
\* the record's user_id (SessionExpAuth, SessionDBAuth).
PrincipalOf(session_data) ==
    IF IsStr(session_data) THEN session_data ELSE session_data.user_id

\* The tokens that were in use when the last call started.
KnownTokens == DOMAIN last.reg \cup DOMAIN last.db

ExpLookup ==
    /\ last.op = "user_id_for_session_id"
    /\ auth = "SessionExpAuth"
    /\ IsStr(last.session_id)
    /\ last.session_id \in DOMAIN last.reg

\* The record the looked-up token had, and the time it stops being valid.
LookedUp == last.reg[last.session_id]
ExpirationTime == LookedUp.created_at + session_duration

\* C12: SessionExpAuth with a positive duration d resolves a token to its
\* principal id at every time up to and including created_at + d, and to
\* nothing at every later time.
C12_ExpiresAfterDuration ==
    (ExpLookup /\ session_duration > 0) =>
        /\ now <= ExpirationTime => last.ret = LookedUp.user_id
        /\ now > ExpirationTime => IsNone(last.ret)

\* C12's case: a lookup one second past the expiration time found nothing.
C12_Witness ==
    /\ ExpLookup
    /\ session_duration > 0
    /\ now = ExpirationTime + 1
    /\ IsNone(last.ret)

\* C13: with a non-positive duration, which is what an unset, empty or
\* unparsable SESSION_DURATION gives (0), SessionExpAuth resolves a token of
\* the session map to its principal id at every time.
C13_NonPositiveNeverExpires ==
    /\ (IsNone(SESSION_DURATION) \/ SESSION_DURATION \in {Str(<<>>), Str(<<120>>)})
           => session_duration = 0
    /\ (ExpLookup /\ session_duration <= 0) => last.ret = LookedUp.user_id

\* C13's case: SESSION_DURATION is not a number and the token is resolved
\* three seconds after its session was created.
C13_Witness ==
    /\ ExpLookup
    /\ SESSION_DURATION = Str(<<120>>)
    /\ now >= LookedUp.created_at + 3
    /\ last.ret = LookedUp.user_id

\* A lookup by SessionExpAuth found the token's session expired.
FoundExpired ==
    /\ ExpLookup
    /\ session_duration > 0
    /\ now > ExpirationTime

\* C14: looking up an expired token returns nothing and changes neither the
\* session map nor the persisted records: the expired record stays.
C14_ExpiredLookupChangesNothing ==
    FoundExpired =>
        /\ IsNone(last.ret)
        /\ user_id_by_session_id = last.reg
        /\ user_sessions = last.db

\* C14's case: an expired token was looked up while another session was live.
C14_Witness ==
    /\ FoundExpired
    /\ \E k \in DOMAIN last.reg :
           now <= last.reg[k].created_at + session_duration

\* C15 as stated: once a lookup has found a token expired, the session map
\* no longer holds a record for that token.
C15_ExpiredRecordDeleted ==
    FoundExpired => last.session_id \notin DOMAIN user_id_by_session_id

\* C15, amended: a lookup that finds a token expired does not delete it: the
\* session map still holds the very record, which resolves to nothing at
\* this and every later time.
C15_ExpiredRecordKept ==
    FoundExpired =>
        /\ last.session_id \in DOMAIN user_id_by_session_id
        /\ user_id_by_session_id[last.session_id] = LookedUp
        /\ \A t \in now..MaxTime :
               IsNone(SessionExpAuth_user_id_for_session_id(
                          user_id_by_session_id, last.session_id,
                          session_duration, t))

\* C15's case: the lookup found the only session of the map expired.
C15_Witness ==
    /\ FoundExpired
    /\ DOMAIN user_id_by_session_id = {last.session_id}

\* A lookup by SessionDBAuth of a token that has both its in-memory record
\* (written by the inherited SessionExpAuth.create_session) and its persisted
\* record.
DBLookup ==
    /\ last.op = "user_id_for_session_id"
    /\ auth = "SessionDBAuth"
    /\ IsStr(last.session_id)
    /\ last.session_id \in DOMAIN last.reg \cap DOMAIN last.db

\* C16: SessionDBAuth resolves a token to what SessionExpAuth resolves it to
\* after the same calls, in particular to nothing once
\* now > created_at + duration for a positive duration.
C16_DBAuthExpiresLikeExpAuth ==
    DBLookup =>
        last.ret = SessionExpAuth_user_id_for_session_id(
                       last.reg, last.session_id, session_duration, now)

\* C17: for SessionDBAuth create_session(pid) saves a UserSession holding the
\* token and pid, user_id_for_session_id returns the user_id of the persisted
\* record of the token (nothing when there is none, whatever the in-memory
\* map holds), and destroy_session deletes the persisted record.
C17_PersistedRecordIsTheSession ==
    auth = "SessionDBAuth" =>
        /\ (last.op = "create_session" /\ IsStr(last.user_id)) =>
               /\ IsStr(last.ret)
               /\ last.ret \in DOMAIN user_sessions
               /\ user_sessions[last.ret] =
                      [user_id |-> last.user_id, session_id |-> last.ret]
        /\ (last.op = "user_id_for_session_id" /\ IsStr(last.session_id)) =>
               last.ret = IF last.session_id \in DOMAIN last.db
                          THEN last.db[last.session_id].user_id
                          ELSE None
        /\ (last.op = "destroy_session" /\ last.ret = Bool(TRUE)) =>
               /\ last.request.cookie \in DOMAIN last.db
               /\ last.request.cookie \notin DOMAIN user_sessions

\* C17's case: the token's persisted record was destroyed, and the lookup
\* finds nothing although the in-memory map still holds the token.
C17_Witness ==
    /\ auth = "SessionDBAuth"
    /\ last.op = "user_id_for_session_id"
    /\ IsStr(last.session_id)
    /\ last.session_id \in DOMAIN last.reg
    /\ last.session_id \notin DOMAIN last.db
    /\ IsNone(last.ret)

\* C18: a token SessionDBAuth created, not destroyed since, resolves to its
\* principal id after the process restarted.
C18_SessionSurvivesRestart ==
    (auth = "SessionDBAuth" /\ last.op = "restart") =>
        \A session_id \in DOMAIN last.db :
            Resolve(user_id_by_session_id, user_sessions, session_id)
                = last.db[session_id].user_id

-----------------------------------------------------------------------------
(* Properties of the session strategies under concurrent calls, under        *)
(* SpecConcurrent                                                            *)

\* C19: however create_session, user_id_for_session_id and destroy_session
\* calls interleave, a lookup returns nothing or the principal id stored for
\* the token; it never raises and never sees the bare user id that
\* SessionExpAuth.create_session leaves in the map before the record.
C19_LookupSeesWholeRecords ==
    last.op = "user_id_for_session_id" =>
        /\ ~IsRaised(last.ret)
        /\ IsNone(last.ret) \/ IsStr(last.ret)
        /\ auth = "SessionAuth" \/ ~IsStr(last.session_data)

-----------------------------------------------------------------------------
(* Properties of require_auth, under SpecPaths *)

\* path + "/"
WithSlash(path) == Str(Append(path.str, Slash))

\* C20: for every path p that is not None and every excluded_paths E,
\* require_auth(p, E) = require_auth(p + "/", E), in both projects.
C20_TrailingSlashInvariance ==
    (last.op = "require_auth" /\ ~IsNone(last.path)) =>
        /\ require_auth(WithSlash(last.path), last.excluded_paths) = last.ret
        /\ require_auth_0x01(WithSlash(last.path), last.excluded_paths)
               = last.ret_0x01

\* C20's case: a path that already ends with '/' is excluded by one of two
\* patterns, in both projects.
C20_Witness ==
    /\ last.op = "require_auth"
    /\ ~IsNone(last.path)
    /\ last.path.str # <<>>
    /\ last.path.str[Len(last.path.str)] = Slash
    /\ ~IsNone(last.excluded_paths)
    /\ Len(last.excluded_paths.list) = 2
    /\ ~last.ret
    /\ ~last.ret_0x01

\* C21: require_auth is true whenever the path is None or '', whatever the
\* excluded paths (an entry '/' included), and whenever excluded_paths is
\* None or empty, whatever the path.
C21_EmptyRequiresAuth ==
    last.op = "require_auth" =>
        /\ (IsNone(last.path) \/ last.path = Str(<<>>)) => last.ret
        /\ (IsNone(last.excluded_paths) \/ last.excluded_paths = List(<<>>))
               => last.ret

\* s with its trailing separators replaced by exactly one.
Normalized(s) ==
    LET k == CHOOSE k \in 0..Len(s) :
                 /\ \A i \in (k + 1)..Len(s) : s[i] = Slash
                 /\ k > 0 => s[k] # Slash
    IN  Append(SubSeq(s, 1, k), Slash)

EndsWithStar(s) == s # <<>> /\ s[Len(s)] = Star

\* require_auth was given a path and a list of excluded paths.
GivenPathAndList ==
    /\ last.op = "require_auth"
    /\ ~IsNone(last.path)
    /\ ~IsNone(last.excluded_paths)

\* C22: when no excluded path ends with '*', require_auth is false exactly
\* when the path, normalized to one trailing separator, equals an excluded
\* path normalized the same way: case matters and a prefix of a segment
\* exempts nothing.
C22_ExactMatchOfNormalized ==
    (/\ GivenPathAndList
     /\ \A i \in 1..Len(last.excluded_paths.list) :
            ~EndsWithStar(last.excluded_paths.list[i])) =>
        (~last.ret <=>
            \E i \in 1..Len(last.excluded_paths.list) :
                Normalized(last.path.str)
                    = Normalized(last.excluded_paths.list[i]))

\* C22's case: the path '/a/' is exempt by the excluded path '/a', written
\* without the separator.
C22_Witness ==
    /\ GivenPathAndList
    /\ last.path = Str(<<47, 97, 47>>)
    /\ last.excluded_paths = List(<<<<47, 97>>>>)
    /\ ~last.ret

\* C23: an excluded path ending with '*' exempts exactly the paths that
\* start with what is written before the '*': '/api/v1/stat*' exempts
\* '/api/v1/status' and '/api/v1/stats/'.
C23_WildcardExemptsPrefix ==
    (/\ GivenPathAndList
     /\ Len(last.excluded_paths.list) = 1
     /\ EndsWithStar(last.excluded_paths.list[1])) =>
        LET excluded_path == last.excluded_paths.list[1]
            prefix == SubSeq(excluded_path, 1, Len(excluded_path) - 1)
        IN  ~last.ret <=> StartsWith(last.path.str, prefix)

\* C24: for the base class Auth, the strategy when no other is selected,
\* require_auth is false for every path and every list of excluded paths,
\* and current_user is None for every request.
C24_AuthRequiresNothing ==
    (last.op = "require_auth" /\ auth = "Auth") =>
        /\ ~last.ret
        /\ \A request \in SessionRequests :
               IsNone(current_user(auth, users, user_id_by_session_id,
                                   user_sessions, request, session_duration,
                                   now, FALSE))

-----------------------------------------------------------------------------
(* Properties of the user authentication service, under SpecService *)

Given(value) == IsStr(value) /\ value # Str(<<>>)

\* The rows of the table the request found whose column holds the value.
RowsBefore(column, value) ==
    {i \in 1..Len(last.users) : last.users[i][column] = value}

\* The password a row was registered with, as bytes.
PasswordOf(row) == row.hashed_password.digest[2]

\* C25: registering an email that is already registered is answered 400
\* 'email already registered' and leaves the table as it was; the table
\* never holds two users with one email.
C25_DuplicateRegistrationRejected ==
    /\ (/\ last.op = "register_user"
        /\ Given(last.form.email)
        /\ Given(last.form.password)
        /\ RowsBefore("email", last.form.email) # {}) =>
           /\ last.response.status = 400
           /\ last.response.body = [message |-> "email already registered"]
           /\ users = last.users
    /\ \A i, j \in 1..Len(users) : users[i].email = users[j].email => i = j

\* C25's case: a registered email is registered again, with another
\* password, while another user exists.
C25_Witness ==
    /\ last.op = "register_user"
    /\ Given(last.form.email)
    /\ Given(last.form.password)
    /\ Len(last.users) = 2
    /\ \E i \in RowsBefore("email", last.form.email) :
           PasswordOf(last.users[i]) # Utf8Encode(last.form.password.str)
    /\ last.response.status = 400

\* POST /sessions came with a registered email and another password than
\* the user's.
WrongPassword ==
    /\ last.op = "login"
    /\ Given(last.form.email)
    /\ Given(last.form.password)
    /\ \E i \in RowsBefore("email", last.form.email) :
           PasswordOf(last.users[i]) # Utf8Encode(last.form.password.str)

\* C26: POST /sessions with a registered email and a wrong password answers
\* 401, sets no cookie and leaves every user's session id as it was.
C26_WrongPasswordNoSession ==
    WrongPassword =>
        /\ last.response.status = 401
        /\ IsNone(last.response.cookie)
        /\ users = last.users
        /\ generated < MaxUuids =>
               app_login(users, last.form, generate_uuid(generated + 1)).status
                   = 401

\* C26's case: the wrong password is tried on a user who is logged in.
C26_Witness ==
    /\ WrongPassword
    /\ \E i \in RowsBefore("email", last.form.email) :
           IsStr(last.users[i].session_id)
    /\ last.response.status = 401

\* C27: GET /profile answers 200 with a user's email exactly when the
\* session_id cookie is the session id that user has now, which is the one
\* the user's latest login returned; without a cookie or with any other
\* value it answers 403.
C27_ProfileOfSessionOwner ==
    /\ last.op = "profile" =>
           LET owners == IF IsNone(last.cookie) THEN {}
                         ELSE RowsBefore("session_id", last.cookie)
           IN  /\ owners # {} =>
                      /\ last.response.status = 200
                      /\ \E i \in owners :
                             last.response.body = [email |-> last.users[i].email]
               /\ owners = {} => last.response.status = 403
               /\ users = last.users
    /\ (last.op = "login" /\ last.response.status = 200) =>
           /\ app_profile(users, last.response.cookie).status = 200
           /\ app_profile(users, last.response.cookie).body
                  = [email |-> last.form.email]
           /\ \A i \in RowsBefore("email", last.form.email) :
                  IsStr(last.users[i].session_id) =>
                      app_profile(users, last.users[i].session_id).status = 403

\* C27's case: the profile is asked with the session id of the second
\* user's login while the first user is logged in too.
C27_Witness ==
    /\ last.op = "profile"
    /\ Len(last.users) = 2
    /\ IsStr(last.users[1].session_id)
    /\ last.cookie = last.users[2].session_id
    /\ last.response.status = 200
    /\ last.response.body = [email |-> last.users[2].email]

\* No user has the session id.
Unassigned(table, session_id) ==
    \A i \in 1..Len(table) : table[i].session_id # session_id

\* C28: DELETE /sessions with a session id a user has now sets that user's
\* session id to None and redirects to '/', and GET /profile with it then
\* answers 403; without a cookie or with an unknown session id it answers
\* 403 and changes nothing; a session id no user has any more is never
\* assigned again.
C28_LogoutDestroysSession ==
    /\ [](last.op = "logout" =>
           LET owners == IF IsNone(last.cookie) THEN {}
                         ELSE RowsBefore("session_id", last.cookie)
           IN  /\ owners # {} =>
                      /\ last.response.status = 302
                      /\ last.response.body = [location |-> "/"]
                      /\ \E i \in owners :
                             users = [last.users EXCEPT ![i].session_id = None]
                      /\ app_profile(users, last.cookie).status = 403
               /\ owners = {} =>
                      /\ last.response.status = 403
                      /\ users = last.users)
    /\ [][\A n \in 1..generated :
              Unassigned(users, generate_uuid(n))
                  => Unassigned(users', generate_uuid(n))]_vars

\* C28's case: a logged-in user logs out while another stays logged in.
C28_Witness ==
    /\ last.op = "logout"
    /\ last.response.status = 302
    /\ \E i \in 1..Len(users) : IsStr(users[i].session_id)

\* C29: POST /reset_password for a registered email answers 200 with the
\* email and a newly generated token, stored as that user's reset_token and
\* nowhere else; for an email that is not registered it answers 403 and
\* changes nothing.
C29_ResetTokenIssued ==
    (last.op = "get_reset_password_token" /\ Given(last.form.email)) =>
        LET rows == RowsBefore("email", last.form.email)
        IN  /\ rows # {} =>
                   /\ last.response.status = 200
                   /\ DOMAIN last.response.body = {"email", "reset_token"}
                   /\ last.response.body.email = last.form.email
                   /\ IsStr(last.response.body.reset_token)
                   /\ \A i \in 1..Len(last.users) :
                          /\ last.users[i].reset_token
                                 # last.response.body.reset_token
                          /\ last.users[i].session_id
                                 # last.response.body.reset_token
                   /\ \E i \in rows :
                          users = [last.users EXCEPT ![i].reset_token =
                                       last.response.body.reset_token]
            /\ rows = {} =>
                   /\ last.response.status = 403
                   /\ users = last.users

\* C29's case: a user who already holds a reset token asks for another.
C29_Witness ==
    /\ last.op = "get_reset_password_token"
    /\ Given(last.form.email)
    /\ \E i \in RowsBefore("email", last.form.email) :
           /\ IsStr(last.users[i].reset_token)
           /\ users[i].reset_token # last.users[i].reset_token
    /\ last.response.status = 200

\* C30: PUT /reset_password with the reset token a user holds and a new
\* password answers 200 'Password updated', and a login with that user's
\* email and the new password then succeeds; with a reset token no user
\* holds it answers 403.
C30_PasswordUpdated ==
    (/\ last.op = "update_password"
     /\ Given(last.form.email)
     /\ Given(last.form.reset_token)
     /\ Given(last.form.new_password)) =>
        LET rows == RowsBefore("reset_token", last.form.reset_token)
        IN  /\ rows # {} =>
                   /\ last.response.status = 200
                   /\ last.response.body = [email |-> last.form.email,
                                            message |-> "Password updated"]
                   /\ \A i \in rows :
                          Auth_valid_login(users, users[i].email,
                                           last.form.new_password) = Bool(TRUE)
            /\ rows = {} => last.response.status = 403

\* C31: POST /users with an email that is not yet registered and a password
\* creates the user and answers 200 with {email, message: 'user created'}.
C31_RegistrationAnswers200 ==
    (/\ last.op = "register_user"
     /\ Given(last.form.email)
     /\ Given(last.form.password)
     /\ RowsBefore("email", last.form.email) = {}) =>
        /\ last.response.status = 200
        /\ last.response.body = [email |-> last.form.email,
                                 message |-> "user created"]
        /\ Len(users) = Len(last.users) + 1
        /\ users[Len(users)].email = last.form.email
        /\ Auth_valid_login(users, last.form.email, last.form.password)
               = Bool(TRUE)

-----------------------------------------------------------------------------
(* The two places SessionDBAuth keeps a session in, under SpecSession *)

\* C32: for SessionDBAuth the in-memory session map and the UserSession
\* store always hold the same set of tokens; after destroy_session returned
\* True the token is in neither.
C32_MapAndStoreHoldSameTokens ==
    auth = "SessionDBAuth" =>
        /\ DOMAIN user_id_by_session_id = DOMAIN user_sessions
        /\ (last.op = "destroy_session" /\ last.ret = Bool(TRUE)) =>
               /\ last.request.cookie \notin DOMAIN user_id_by_session_id
               /\ last.request.cookie \notin DOMAIN user_sessions

-----------------------------------------------------------------------------
(* Registration from several threads, under SpecRegister *)

\* C33: two concurrent register_user calls with one email cannot both
\* succeed: whatever the interleaving of their lookups and inserts, the
\* table holds at most one user with that email, and a later lookup by a
\* registered email finds exactly one user.
C33_ConcurrentRegistrationsKeepEmailsUnique ==
    /\ \A i, j \in 1..Len(users) : users[i].email = users[j].email => i = j
    /\ (/\ last.op = "valid_login"
        /\ \E i \in 1..Len(users) : users[i].email = last.email) =>
           /\ ~IsRaised(last.found)
           /\ ~IsRaised(last.ret)

-----------------------------------------------------------------------------
(* Logging in through the gate, under SpecLogin *)

\* The login request carries no credentials and the form holds the email and
\* the password of the user the store finds first for that email.
CorrectLoginWithoutCredentials ==
    /\ last.op = "login"
    /\ ~last.store_fails
    /\ IsNone(last.request.Authorization)
    /\ IsNone(last.request.cookie)
    /\ IsStr(last.form.email)
    /\ LET user_list == User_search(users, last.form.email, FALSE).list
       IN  /\ user_list # <<>>
           /\ is_valid_password(user_list[1], last.form.password)

\* C34: a registered user without credentials who posts the correct email
\* and password to the login route is let through by the gate and receives a
\* session token created by the configured strategy; a later request with
\* that token as its session cookie is let through as that user.
C34_LoginThroughGateOpensSession ==
    CorrectLoginWithoutCredentials =>
        /\ last.answer.status = "Allow"
        /\ last.response.status = 200
        /\ IsStr(last.response.cookie)
        /\ \A path \in Paths :
               before_request(auth, users, user_id_by_session_id,
                              user_sessions,
                              [path |-> path, Authorization |-> None,
                               cookie |-> last.response.cookie],
                              session_duration, now, FALSE)
                   = Answer("Allow",
                            User_search(users, last.form.email, FALSE).list[1])

-----------------------------------------------------------------------------
(* The default strategy behind the gate, under SpecGate *)

\* C35: the base class Auth is the strategy whenever AUTH_TYPE is not
\* 'basic_auth', and with it the gate never allows a request whose path is
\* not excluded: it answers 401 without an Authorization header and 403 with
\* one, whatever the header holds.
C35_DefaultStrategyAllowsNothingGated ==
    /\ \A auth_type \in AuthTypes :
           auth_type # "basic_auth" => AppAuth(auth_type) = "Auth"
    /\ (Gated /\ auth = "Auth" /\ NeedsAuth) =>
           /\ last.answer.status # "Allow"
           /\ ~HasHeader => last.answer = Answer("Unauthorized", Unset)
           /\ HasHeader => last.answer = Answer("Forbidden", None)

\* C35's case: with Auth as the strategy, a request to '/api/v1/users' came
\* with the Basic header of a registered user's email and password, the store
\* answered, and the gate refused it with 403.
C35_Witness ==
    /\ Gated
    /\ auth = "Auth"
    /\ NeedsAuth
    /\ ~last.store_fails
    /\ last.request.Authorization = Str(BasicHeader(<<97>>, <<112>>))
    /\ \E k \in 1..Len(users) : users[k] = NewUser(k, <<97>>, <<112>>)
    /\ last.answer.status = "Forbidden"

=============================================================================
